---- MODULE Spec2Model ----
\* State-machine model of puuyapu::SleepDetector (core/sleep_detector.cpp,
\* include/puuyapu_types.h).
\*
\* Units.  Time points (system_clock::time_point) are whole minutes of local
\* time counted from a local midnight that falls on a Thursday (the epoch
\* under a UTC zone).  Event durations are milliseconds, as in the source.
\* minimum_interaction_gap is seconds, as in the source.  Sleep durations
\* (double hours in the source) are minutes.  Scores (double in [0,1] in the
\* source) are fixed point: quality and impact in thousandths, the
\* confidence and pattern scores in millionths.
\*
\* std::sort on the snapshot is modelled as a stable insertion sort.
\* The statistics counters and the performance metrics map are left out.
EXTENDS Integers, Sequences, FiniteSets, TLC

\* ------------------------------------------------------------------ bounds
\* Capacity of the event buffer (Performance::MAX_EVENTS_CACHE, 10000 in the
\* source, scaled down).
MAX_EVENTS_CACHE == 3

\* Largest number of short events between the two meaningful-use events of
\* an analysed snapshot.
MaxBriefChecks == 20

\* Bits of the significand of a float (24 in IEEE single precision, scaled
\* down).
FloatMantissaBits == 8

\* updatePatterns is called at most this many times with a valid session.
MaxSessions == 21

\* ------------------------------------------------------- program constants
CACHE_VALIDITY_DURATION == 5

MinutesPerDay == 24 * 60

\* ------------------------------------------------------------ input domains
\* Time stamps of the events ingested through addInteractionEvent.
EventTimes == {0, 60, 1560}

\* timestamp arguments of confirmManualSleep.
ConfirmTimes == {30}

\* current_time arguments of detectSleepPeriod.
DetectTimes == {58, 60, 66}

\* current_time arguments of isCurrentlyAsleep and getEstimatedSleepStart.
QueryTimes == {60}

\* cutoff_time arguments of clearOldData.
CutoffTimes == {30}

\* The events the host ingests through addInteractionEvent: meaningful use.
EventInputs ==
    { [timestamp |-> t, duration |-> 60000, type |-> "MEANINGFUL_USE",
       category |-> "UNKNOWN"] : t \in EventTimes }

\* ------------------------------------------------------------------- types
nullopt == [has_value |-> FALSE, value |-> 0]

Some(v) == [has_value |-> TRUE, value |-> v]

InteractionEvent(ts, dur, t, cat) ==
    [timestamp |-> ts, duration |-> dur, type |-> t, category |-> cat]

isTimeCheck(e) ==
    \/ e.type = "TIME_CHECK"
    \/ (e.category = "CLOCK_ALARM" /\ e.duration < 30000)
    \/ e.duration < 15000

isMeaningfulUse(e) ==
    \/ e.type = "MEANINGFUL_USE"
    \/ e.type = "EXTENDED_USE"
    \/ e.type = "NOTIFICATION_RESPONSE"
    \/ e.duration >= 30000

\* InteractionAnalyzer::isTimeCheck and isMeaningfulUsage, the static
\* counterparts of the two members.
isTimeCheck_analyzer(event) ==
    \/ event.duration < 15000
    \/ event.type = "TIME_CHECK"
    \/ (event.category = "CLOCK_ALARM" /\ event.duration < 30000)

isMeaningfulUsage(event) ==
    \/ event.duration >= 30000
    \/ event.type = "MEANINGFUL_USE"
    \/ event.type = "EXTENDED_USE"
    \/ event.type = "NOTIFICATION_RESPONSE"

\* UserPreferences: target_sleep_hours in minutes, confidence_threshold in
\* hundredths, minimum_interaction_gap in seconds, bedtimes in minutes since
\* midnight.
UserPreferences(target, gap, conf) ==
    [target_sleep_hours |-> target, weekday_bedtime |-> 1410,
     weekend_bedtime |-> 1440, minimum_interaction_gap |-> gap,
     confidence_threshold |-> conf]

DefaultPreferences == UserPreferences(480, 14400, 70)

PrefsIsValidNoGapCheck(p) ==
    /\ p.target_sleep_hours >= 60
    /\ p.target_sleep_hours <= 720
    /\ p.confidence_threshold >= 10
    /\ p.confidence_threshold <= 100

PrefsIsValid(p) ==
    /\ p.target_sleep_hours >= 60
    /\ p.target_sleep_hours <= 720
    /\ p.confidence_threshold >= 10
    /\ p.confidence_threshold <= 100
    /\ p.minimum_interaction_gap >= 3600

\* Preference objects the host supplies: two valid ones and one invalid one
\* for each clause of isValid.
PreferenceInputs ==
    { DefaultPreferences,
      UserPreferences(60, 3600, 70),
      UserPreferences(900, 14400, 70),
      UserPreferences(480, 14400, 5),
      UserPreferences(480, 1800, 70) }

EmptyResult ==
    [bedtime |-> nullopt, wake_time |-> nullopt, duration |-> 0,
     confidence |-> 1, interruptions |-> << >>, quality_score |-> 0,
     is_manually_confirmed |-> FALSE, pattern_match_score |-> 0]

ResultIsValidNoMaxDuration(r) ==
    /\ r.bedtime.has_value
    /\ r.wake_time.has_value
    /\ r.duration >= 60

ResultIsValid(r) ==
    /\ r.bedtime.has_value
    /\ r.wake_time.has_value
    /\ r.duration >= 60
    /\ r.duration <= 1440

\* ------------------------------------------------------------- arithmetic
Min(a, b) == IF a <= b THEN a ELSE b

Max(a, b) == IF a >= b THEN a ELSE b

Abs(a) == IF a >= 0 THEN a ELSE 0 - a

MaxOf(S) == CHOOSE x \in S : \A y \in S : y <= x

RECURSIVE SumImpact(_, _)
SumImpact(interruptions, n) ==
    IF n = 0 THEN 0
    ELSE SumImpact(interruptions, n - 1) + (interruptions[n].impact_score \div 10)

\* ------------------------------------------------------------- time utils
\* std::localtime on a local-minute time point.
getMinutesSinceMidnight(time_point) == time_point % MinutesPerDay

tm_wday(time_point) == ((time_point \div MinutesPerDay) + 4) % 7

isWithinDailyTimeRange(time_point, range_start, range_end) ==
    LET minutes == getMinutesSinceMidnight(time_point)
    IN  IF range_start <= range_end
        THEN minutes >= range_start /\ minutes <= range_end
        ELSE minutes >= range_start \/ minutes <= range_end

isNighttime(time_point) == isWithinDailyTimeRange(time_point, 22 * 60, 6 * 60)

calculateDurationHoursSwapped(start, end) == start - end

calculateDurationHours(start, end) == end - start

getBedtimeForDay(prefs, day_of_week) ==
    IF day_of_week = 0 \/ day_of_week = 6
    THEN prefs.weekend_bedtime ELSE prefs.weekday_bedtime

\* ------------------------------------------------------- sorted snapshot
InsertSorted(s, e) ==
    LET k == Cardinality({i \in 1..Len(s) : s[i].timestamp <= e.timestamp})
    IN  SubSeq(s, 1, k) \o <<e>> \o SubSeq(s, k + 1, Len(s))

RECURSIVE SortPrefix(_, _)
SortPrefix(s, n) ==
    IF n = 0 THEN << >> ELSE InsertSorted(SortPrefix(s, n - 1), s[n])

SortEvents(s) == SortPrefix(s, Len(s))

\* ------------------------------------------------------------ gap detector
TimeGap(start, end) ==
    [start_time |-> start, end_time |-> end, duration |-> end - start,
     contains_brief_interactions |-> FALSE, brief_interaction_count |-> 0]

GapIsLikelySleepUpToFive(gap, min_duration) ==
    /\ gap.duration * 60 >= min_duration
    /\ gap.brief_interaction_count <= 5

\* duration is minutes, min_duration seconds
GapIsLikelySleep(gap, min_duration) ==
    /\ gap.duration * 60 >= min_duration
    /\ gap.brief_interaction_count < 5

\* The gap emitted for the pair (prev_meaningful, it) of positions.
GapBetween(events, prev, it) ==
    LET brief == Cardinality({k \in (prev + 1)..(it - 1) : isTimeCheck(events[k])})
    IN  [TimeGap(events[prev].timestamp, events[it].timestamp)
            EXCEPT !.contains_brief_interactions = brief > 0,
                   !.brief_interaction_count = brief]

RECURSIVE GapScan(_, _, _, _)
GapScan(events, it, prev, min_gap_duration) ==
    IF it > Len(events) THEN << >>
    ELSE IF isMeaningfulUse(events[it])
         THEN (IF (events[it].timestamp - events[prev].timestamp) * 60
                      >= min_gap_duration
               THEN <<GapBetween(events, prev, it)>> ELSE << >>)
              \o GapScan(events, it + 1, it, min_gap_duration)
         ELSE GapScan(events, it + 1, prev, min_gap_duration)

detectInteractionGaps(events, min_gap_duration) ==
    IF Len(events) < 2 THEN << >> ELSE GapScan(events, 2, 1, min_gap_duration)

\* ---------------------------------------------------- sleep start and end
findSleepStartTimeOldest(events, current_time, prefs) ==
    LET gaps == detectInteractionGaps(events, prefs.minimum_interaction_gap)
        likely == {i \in 1..Len(gaps) :
                      gaps[i].duration * 60 >= prefs.minimum_interaction_gap
                      /\ gaps[i].brief_interaction_count < 5}
    IN  IF likely # {}
        THEN Some(gaps[CHOOSE i \in likely : \A j \in likely : i <= j].start_time)
        ELSE nullopt

findSleepStartTime(events, current_time, prefs) ==
    IF events = << >> THEN nullopt
    ELSE
      LET gaps == detectInteractionGaps(events, prefs.minimum_interaction_gap)
          likely == {i \in 1..Len(gaps) :
                        GapIsLikelySleep(gaps[i], prefs.minimum_interaction_gap)}
          meaningful == {i \in 1..Len(events) : isMeaningfulUse(events[i])}
      IN  IF likely # {} THEN Some(gaps[MaxOf(likely)].start_time)
          ELSE IF /\ meaningful # {}
                  /\ (current_time - events[MaxOf(meaningful)].timestamp) * 60
                        >= prefs.minimum_interaction_gap
               THEN Some(events[MaxOf(meaningful)].timestamp)
               ELSE nullopt

IsWakeEventInclusive(e, sleep_start) ==
    e.timestamp >= sleep_start /\ isMeaningfulUse(e)

IsWakeEvent(e, sleep_start) ==
    e.timestamp > sleep_start /\ isMeaningfulUse(e)

findSleepEndTime(events, sleep_start, current_time) ==
    LET wake == {i \in 1..Len(events) : IsWakeEvent(events[i], sleep_start)}
    IN  IF wake # {}
        THEN Some(events[CHOOSE i \in wake : \A j \in wake : i <= j].timestamp)
        ELSE nullopt

\* ----------------------------------------------------------- interruptions
SleepInterruption(ts, dur, c, cat) ==
    [timestamp |-> ts, duration |-> dur, cause |-> c, app_category |-> cat,
     is_brief_check |-> dur < 30000,
     impact_score |-> IF dur < 30000 THEN 100 ELSE Min(1000, dur \div 600)]

RECURSIVE InterruptionScan(_, _, _, _)
InterruptionScan(events, n, sleep_start, sleep_end) ==
    IF n = 0 THEN << >>
    ELSE
      LET event == events[n]
          rest == InterruptionScan(events, n - 1, sleep_start, sleep_end)
      IN  IF /\ event.timestamp > sleep_start
             /\ event.timestamp < sleep_end
             /\ (isTimeCheck(event) \/ event.duration < 120000)
          THEN Append(rest, SleepInterruption(event.timestamp, event.duration,
                                              event.type, event.category))
          ELSE rest

analyzeInterruptionsChecksOnly(events, sleep_start, sleep_end) ==
    LET IsCheckInside(e) == /\ e.timestamp > sleep_start
                            /\ e.timestamp < sleep_end
                            /\ isTimeCheck(e)
        picked == SelectSeq(events, IsCheckInside)
    IN  [i \in 1..Len(picked) |->
            SleepInterruption(picked[i].timestamp, picked[i].duration,
                              picked[i].type, picked[i].category)]

analyzeInterruptions(events, sleep_start, sleep_end) ==
    InterruptionScan(events, Len(events), sleep_start, sleep_end)

\* ----------------------------------------------------------------- scoring
calculateSleepQualityNoFloor(interruptions, total_sleep_duration) ==
    IF total_sleep_duration <= 0 THEN 0
    ELSE
      LET n == Len(interruptions)
          quality == 1000 - SumImpact(interruptions, n)
                          - (IF n > 3 THEN (n - 3) * 50 ELSE 0)
      IN  Min(1000, quality)

calculateSleepQualityFromThird(interruptions, total_sleep_duration) ==
    IF total_sleep_duration <= 0 THEN 0
    ELSE
      LET n == Len(interruptions)
          quality == 1000 - SumImpact(interruptions, n)
                          - (IF n > 2 THEN (n - 2) * 50 ELSE 0)
      IN  Max(0, Min(1000, quality))

calculateSleepQuality(interruptions, total_sleep_duration) ==
    IF total_sleep_duration <= 0 THEN 0
    ELSE
      LET n == Len(interruptions)
          quality == 1000 - SumImpact(interruptions, n)
                          - (IF n > 3 THEN (n - 3) * 50 ELSE 0)
      IN  Max(0, Min(1000, quality))

\* max(0, 1 - |actual - target| / target), in millionths
DurationScore(actual, target) ==
    Max(0, 1000000 - ((Abs(actual - target) * 1000000) \div target))

evaluatePatternConsistency(sleep_start, sleep_end, prefs) ==
    LET expected_bedtime == getBedtimeForDay(prefs, tm_wday(sleep_start))
        actual_bedtime == getMinutesSinceMidnight(sleep_start)
        bedtime_diff == Abs(actual_bedtime - expected_bedtime)
        bedtime_score == Max(0, 1000000 - ((bedtime_diff * 1000000) \div 180))
        duration_score ==
            DurationScore(calculateDurationHours(sleep_start, sleep_end),
                          prefs.target_sleep_hours)
    IN  (bedtime_score + duration_score) \div 2

calculateConfidenceScorePatternFirst(session, prefs) ==
    IF ~ResultIsValid(session) THEN 0
    ELSE
      LET pattern == evaluatePatternConsistency(session.bedtime.value,
                                                session.wake_time.value, prefs)
          score ==
            (IF session.is_manually_confirmed THEN 500000 ELSE 0)
            + (DurationScore(session.duration, prefs.target_sleep_hours) \div 5)
            + ((pattern * 15) \div 100)
            + (session.quality_score * 100)
            + (IF session.bedtime.has_value /\ isNighttime(session.bedtime.value)
               THEN 50000 ELSE 0)
      IN  Min(1000000, score)

calculateConfidenceScore(session, prefs) ==
    IF ~ResultIsValid(session) THEN 0
    ELSE
      LET score ==
            (IF session.is_manually_confirmed THEN 500000 ELSE 0)
            + (DurationScore(session.duration, prefs.target_sleep_hours) \div 5)
            + ((session.pattern_match_score * 15) \div 100)
            + (session.quality_score * 100)
            + (IF session.bedtime.has_value /\ isNighttime(session.bedtime.value)
               THEN 50000 ELSE 0)
      IN  Min(1000000, score)

HasManualConfirmationExclusive(events, sleep_start) ==
    \E i \in 1..Len(events) :
        /\ events[i].type = "SLEEP_CONFIRMATION"
        /\ events[i].timestamp > sleep_start - 30
        /\ events[i].timestamp < sleep_start + 30

\* The manual confirmation scan of detectSleepPeriod.
HasManualConfirmation(events, sleep_start) ==
    \E i \in 1..Len(events) :
        /\ events[i].type = "SLEEP_CONFIRMATION"
        /\ events[i].timestamp >= sleep_start - 30
        /\ events[i].timestamp <= sleep_start + 30

\* ------------------------------------------------------- detectSleepPeriod
TooFewEventsEmptyOnly(events) == Len(events) < 1

\* line 86: events.size() < 2
TooFewEvents(events) == Len(events) < 2

\* Lines 84-137 of detectSleepPeriod: the result computed from a sorted
\* snapshot when the cache is not used.
ComputeResult(events, current_time, prefs) ==
    IF TooFewEvents(events) THEN EmptyResult
    ELSE
      LET sleep_start == findSleepStartTime(events, current_time, prefs)
      IN  IF ~sleep_start.has_value THEN EmptyResult
          ELSE
            LET sleep_end == findSleepEndTime(events, sleep_start.value, current_time)
            IN  IF ~sleep_end.has_value
                THEN [EmptyResult EXCEPT !.bedtime = sleep_start]
                ELSE
                  LET interruptions ==
                        analyzeInterruptions(events, sleep_start.value, sleep_end.value)
                      timed ==
                        [EmptyResult EXCEPT
                           !.bedtime = sleep_start,
                           !.wake_time = sleep_end,
                           !.duration = calculateDurationHours(sleep_start.value,
                                                               sleep_end.value),
                           !.interruptions = interruptions,
                           !.quality_score =
                               calculateSleepQuality(interruptions,
                                   (sleep_end.value - sleep_start.value) * 60000)]
                      scored ==
                        [timed EXCEPT
                           !.confidence =
                               Min(4, (calculateConfidenceScore(timed, prefs) * 5)
                                         \div 1000000),
                           !.pattern_match_score =
                               evaluatePatternConsistency(sleep_start.value,
                                                          sleep_end.value, prefs)]
                  IN  IF HasManualConfirmation(events, sleep_start.value)
                      THEN [scored EXCEPT !.is_manually_confirmed = TRUE,
                                          !.confidence = 4]
                      ELSE scored

\* ------------------------------------------------------------------- state
VARIABLES
    recent_events_,        \* the event buffer, in physical (slot) order
    event_write_index_,    \* next slot to overwrite once the buffer is full
    event_buffer_full_,
    preferences_,          \* *preferences_storage_
    cached_result_,        \* std::optional<SleepDetectionResult>
    last_cache_update_,
    total_sleep_sessions_, \* PatternMatcher: sessions accepted by updatePatterns
    insert_rank,           \* history: insert_rank[i] = age rank of slot i among
                           \* the retained events, 1 = inserted earliest
    lastCall,              \* history: the last call, its arguments and result
    events_mutex_,         \* 0 when free, else the thread that holds it
    metrics_mutex_,        \* 0 when free, else the thread that holds it
    pc,                    \* pc[t]: the statement thread t executes next
    frame,                 \* frame[t]: arguments and locals of thread t's call
    cache_source,          \* history: the snapshot the cached result came from
    snapshot,              \* a sorted event list handed to the analysis helpers
    analysis,              \* what the analysis helpers returned for snapshot
    helper,                \* a stateless helper applied to arguments: the
                           \* arguments and what it returned
    typical_bedtimes_,     \* PatternMatcher: per weekday, minutes since midnight
    typical_wake_times_,
    pattern_confidence_,   \* PatternMatcher: per weekday, in hundredths
    average_sleep_duration_,
    schedule_regularity_score_

detectorVars ==
    <<recent_events_, event_write_index_, event_buffer_full_, preferences_,
      cached_result_, last_cache_update_, total_sleep_sessions_,
      insert_rank, lastCall>>

threadVars == <<events_mutex_, metrics_mutex_, pc, frame, cache_source>>

analysisVars == <<snapshot, analysis>>

matcherVars ==
    <<typical_bedtimes_, typical_wake_times_, pattern_confidence_,
      average_sleep_duration_, schedule_regularity_score_>>

pureVars == <<helper, matcherVars>>

vars == <<recent_events_, event_write_index_, event_buffer_full_, preferences_,
          cached_result_, last_cache_update_, total_sleep_sessions_,
          insert_rank, lastCall, events_mutex_, metrics_mutex_, pc, frame,
          cache_source,
          snapshot, analysis, helper, typical_bedtimes_, typical_wake_times_,
          pattern_confidence_, average_sleep_duration_,
          schedule_regularity_score_>>

NoCall ==
    [op |-> "none", time |-> 0, prefs |-> DefaultPreferences,
     event |-> InteractionEvent(0, 0, "UNKNOWN", "UNKNOWN"),
     result |-> EmptyResult, from_cache |-> FALSE, flag |-> FALSE,
     opt |-> nullopt, evicted |-> 0, had_cache |-> FALSE]

\* The host threads that call into the detector (the background service and
\* the UI of the application).
Threads == {1, 2}

\* A thread that is not inside a call.
IdleFrame ==
    [op |-> "none", current_time |-> 0,
     event |-> InteractionEvent(0, 0, "UNKNOWN", "UNKNOWN"),
     new_preferences |-> DefaultPreferences, events |-> << >>, new_end |-> 0,
     minimum_interaction_gap |-> 0, result |-> EmptyResult]

\* No result has been stored in the cache yet.
NoSource == << >>

\* No analysis helper has been applied to the snapshot yet.
NoAnalysis ==
    [op |-> "none", current_time |-> 0, gaps |-> << >>,
     result |-> EmptyResult, score |-> 0, start |-> nullopt]

\* No stateless helper has been applied.
NoHelper == [op |-> "none"]

\* No thread is inside a call and the mutexes are free.
ThreadsIdle ==
    /\ events_mutex_ = 0
    /\ metrics_mutex_ = 0
    /\ pc = [t \in Threads |-> "idle"]
    /\ frame = [t \in Threads |-> IdleFrame]
    /\ cache_source = NoSource

InitialPreferencesUnchecked(preferences) == preferences

\* lines 29-33: invalid preferences are replaced by the defaults
InitialPreferences(preferences) ==
    IF PrefsIsValid(preferences) THEN preferences ELSE DefaultPreferences

\* The members of a value-initialized PatternMatcher: the arrays are zeroed,
\* the other members take their default member initializers.
Weekdays == 0..6

InitialAverageSleepDuration == 8 * 60

ValueInitializedMatcher ==
    /\ typical_bedtimes_ = [d \in Weekdays |-> 0]
    /\ typical_wake_times_ = [d \in Weekdays |-> 0]
    /\ pattern_confidence_ = [d \in Weekdays |-> 0]
    /\ average_sleep_duration_ = InitialAverageSleepDuration
    /\ schedule_regularity_score_ = 0

\* The members of a detector constructed with the given preferences.
Constructed(preferences) ==
    /\ preferences_ = InitialPreferences(preferences)
    /\ recent_events_ = << >>
    /\ event_write_index_ = 0
    /\ event_buffer_full_ = FALSE
    /\ cached_result_ = nullopt
    /\ last_cache_update_ = 0
    /\ total_sleep_sessions_ = 0
    /\ insert_rank = << >>
    /\ lastCall = [NoCall EXCEPT !.op = "SleepDetector", !.prefs = preferences]

\* SleepDetector::SleepDetector
Init ==
    /\ \E preferences \in PreferenceInputs : Constructed(preferences)
    /\ ThreadsIdle
    /\ snapshot = << >>
    /\ analysis = NoAnalysis
    /\ helper = NoHelper
    /\ ValueInitializedMatcher

\* --------------------------------------------------- addInteractionEvent
NextWriteIndexNoWrap(index) == index + 1

\* line 60
NextWriteIndex(index) == (index + 1) % MAX_EVENTS_CACHE

KeepCacheOnAdd(cached) == cached

\* line 67: cached_result_.reset()
InvalidateOnAdd(cached) == nullopt

\* Rank bookkeeping when the slot of rank r is overwritten by a new event.
RankAfterOverwrite(rank, slot) ==
    [i \in 1..Len(rank) |->
        IF i = slot THEN Len(rank)
        ELSE IF rank[i] > rank[slot] THEN rank[i] - 1 ELSE rank[i]]

\* The body of addInteractionEvent, shared with confirmManualSleep.
StoreEvent(event, op) ==
    /\ IF Len(recent_events_) < MAX_EVENTS_CACHE
       THEN /\ recent_events_' = Append(recent_events_, event)
            /\ insert_rank' = Append(insert_rank, Len(insert_rank) + 1)
            /\ UNCHANGED <<event_write_index_, event_buffer_full_>>
            /\ lastCall' = [NoCall EXCEPT !.op = op, !.event = event,
                                          !.time = event.timestamp,
                                          !.had_cache = cached_result_.has_value]
       ELSE /\ recent_events_' =
                  [recent_events_ EXCEPT ![event_write_index_ + 1] = event]
            /\ insert_rank' = RankAfterOverwrite(insert_rank, event_write_index_ + 1)
            /\ event_write_index_' = NextWriteIndex(event_write_index_)
            /\ event_buffer_full_' = TRUE
            /\ lastCall' = [NoCall EXCEPT !.op = op, !.event = event,
                                          !.time = event.timestamp,
                                          !.evicted = insert_rank[event_write_index_ + 1],
                                          !.had_cache = cached_result_.has_value]
    /\ cached_result_' = InvalidateOnAdd(cached_result_)
    /\ UNCHANGED <<preferences_, last_cache_update_, total_sleep_sessions_>>

addInteractionEvent(event) == StoreEvent(event, "addInteractionEvent")

confirmManualSleep(timestamp) ==
    StoreEvent(InteractionEvent(timestamp, 0, "SLEEP_CONFIRMATION", "SYSTEM"),
               "confirmManualSleep")

\* ------------------------------------------------------------ clearOldData
KeepCacheOnClear(cached) == cached

IsOlderThanOrAt(event, cutoff_time) == event.timestamp <= cutoff_time

\* lines 257-259: the predicate handed to std::remove_if
IsOlderThan(event, cutoff_time) == event.timestamp < cutoff_time

\* line 272
InvalidateOnClear(cached) == nullopt

\* The body of clearOldData, which optimizeMemory calls as well.
RemoveOlder(cutoff_time, op) ==
    LET kept == {i \in 1..Len(recent_events_) :
                    ~IsOlderThan(recent_events_[i], cutoff_time)}
        slotOf(j) == CHOOSE i \in kept : Cardinality({k \in kept : k <= i}) = j
        remaining == [j \in 1..Cardinality(kept) |-> recent_events_[slotOf(j)]]
    IN  /\ recent_events_' = remaining
        /\ insert_rank' =
              [j \in 1..Cardinality(kept) |->
                  Cardinality({k \in kept : insert_rank[k] <= insert_rank[slotOf(j)]})]
        /\ IF Len(remaining) < MAX_EVENTS_CACHE
           THEN event_buffer_full_' = FALSE /\ event_write_index_' = 0
           ELSE UNCHANGED <<event_buffer_full_, event_write_index_>>
        /\ cached_result_' = InvalidateOnClear(cached_result_)
            /\ lastCall' = [NoCall EXCEPT !.op = op, !.time = cutoff_time,
                                      !.had_cache = cached_result_.has_value]
        /\ UNCHANGED <<preferences_, last_cache_update_, total_sleep_sessions_>>

clearOldData(cutoff_time) == RemoveOlder(cutoff_time, "clearOldData")

\* --------------------------------------------------- updateUserPreferences
KeepCacheOnPreferences(cached) == cached

\* line 204
InvalidateOnPreferences(cached) == nullopt

updateUserPreferences(new_preferences) ==
    /\ IF ~PrefsIsValid(new_preferences)
       THEN UNCHANGED <<preferences_, cached_result_>>
       ELSE /\ preferences_' = new_preferences
            /\ cached_result_' = InvalidateOnPreferences(cached_result_)
    /\ lastCall' = [NoCall EXCEPT !.op = "updateUserPreferences",
                                  !.prefs = new_preferences,
                                  !.had_cache = cached_result_.has_value]
    /\ UNCHANGED <<recent_events_, insert_rank, event_write_index_,
                   event_buffer_full_, last_cache_update_, total_sleep_sessions_>>

\* ------------------------------------------------------- detectSleepPeriod
canUseCachedResult(current_time) ==
    /\ cached_result_.has_value
    /\ current_time - last_cache_update_ < CACHE_VALIDITY_DURATION

getSortedEvents == SortEvents(recent_events_)

\* The moved-from result a caching by std::move would return.
ReturnedAfterMove(result) == [result EXCEPT !.interruptions = << >>]

\* lines 142 and 150: the result is copied into the cache and returned
ReturnedAfterCaching(result) == result

detectSleepPeriod(current_time) ==
    /\ IF canUseCachedResult(current_time)
       THEN /\ lastCall' = [NoCall EXCEPT !.op = "detectSleepPeriod",
                                          !.time = current_time,
                                          !.result = cached_result_.value,
                                          !.from_cache = TRUE]
            /\ UNCHANGED <<cached_result_, last_cache_update_>>
       ELSE LET result == ComputeResult(getSortedEvents, current_time, preferences_)
            IN  /\ IF ResultIsValid(result)
                   THEN /\ cached_result_' = Some(result)
                        /\ last_cache_update_' = current_time
                   ELSE UNCHANGED <<cached_result_, last_cache_update_>>
                /\ lastCall' = [NoCall EXCEPT !.op = "detectSleepPeriod",
                                              !.time = current_time,
                                              !.result = ReturnedAfterCaching(result)]
    /\ UNCHANGED <<recent_events_, insert_rank, event_write_index_,
                   event_buffer_full_, preferences_, total_sleep_sessions_>>

\* ------------------------------------------------------------------ queries
IsAsleepStrict(events, current_time, prefs) ==
    LET meaningful == {i \in 1..Len(events) : isMeaningfulUse(events[i])}
    IN  /\ events # << >>
        /\ meaningful # {}
        /\ (current_time - events[MaxOf(meaningful)].timestamp) * 60
              > prefs.minimum_interaction_gap

IsAsleep(events, current_time, prefs) ==
    LET meaningful == {i \in 1..Len(events) : isMeaningfulUse(events[i])}
    IN  /\ events # << >>
        /\ meaningful # {}
        /\ (current_time - events[MaxOf(meaningful)].timestamp) * 60
              >= prefs.minimum_interaction_gap

isCurrentlyAsleep(current_time) ==
    /\ lastCall' = [NoCall EXCEPT
                      !.op = "isCurrentlyAsleep", !.time = current_time,
                      !.flag = IsAsleep(getSortedEvents, current_time, preferences_)]
    /\ UNCHANGED <<recent_events_, insert_rank, event_write_index_,
                   event_buffer_full_, preferences_, cached_result_,
                   last_cache_update_, total_sleep_sessions_>>

EstimatedSleepStart(events, current_time, prefs) ==
    IF ~IsAsleep(events, current_time, prefs) THEN nullopt
    ELSE findSleepStartTime(events, current_time, prefs)

getEstimatedSleepStart(current_time) ==
    /\ lastCall' = [NoCall EXCEPT
                      !.op = "getEstimatedSleepStart", !.time = current_time,
                      !.opt = EstimatedSleepStart(getSortedEvents, current_time,
                                                  preferences_)]
    /\ UNCHANGED <<recent_events_, insert_rank, event_write_index_,
                   event_buffer_full_, preferences_, cached_result_,
                   last_cache_update_, total_sleep_sessions_>>

\* ---------------------------------------------------------- specification
\* One call at a time, each running from entry to return.
Next ==
    \/ \E event \in EventInputs :
          addInteractionEvent(event) /\ UNCHANGED <<threadVars, analysisVars, pureVars>>
    \/ \E timestamp \in ConfirmTimes :
          confirmManualSleep(timestamp) /\ UNCHANGED <<threadVars, analysisVars, pureVars>>
    \/ \E cutoff_time \in CutoffTimes :
          clearOldData(cutoff_time) /\ UNCHANGED <<threadVars, analysisVars, pureVars>>
    \/ \E new_preferences \in PreferenceInputs :
          updateUserPreferences(new_preferences)
              /\ UNCHANGED <<threadVars, analysisVars, pureVars>>
    \/ \E current_time \in DetectTimes :
          detectSleepPeriod(current_time) /\ UNCHANGED <<threadVars, analysisVars, pureVars>>
    \/ \E current_time \in QueryTimes :
          isCurrentlyAsleep(current_time) /\ UNCHANGED <<threadVars, analysisVars, pureVars>>
    \/ \E current_time \in QueryTimes :
          getEstimatedSleepStart(current_time)
              /\ UNCHANGED <<threadVars, analysisVars, pureVars>>

Spec == Init /\ [][Next]_vars

\* ------------------------------------------------- analysis of a snapshot
\* The private helpers of detectSleepPeriod applied to one sorted snapshot:
\* a meaningful-use event at bedtime, k short events one minute apart after
\* it, at most one manual confirmation near bedtime, and a meaningful-use
\* event `length` minutes after the first.
AnalysisBedtimes == {60, 12 * 60}

AnalysisLengths == {59, 60, 239, 240, 24 * 60, 24 * 60 + 1}

ConfirmationOffsets == {0 - 31, 0 - 30, 30, 31}

AnalysisDelays == {0, 240}

AnalysisPreferences == {DefaultPreferences, UserPreferences(60, 3600, 70)}

\* The short events between the two meaningful-use events: time checks of
\* 10 s, or uses of 20 s that are neither a time check nor meaningful use.
BriefKinds ==
    { [type |-> "TIME_CHECK", duration |-> 10000],
      [type |-> "UNKNOWN", duration |-> 20000] }

BriefEventsAfter(bedtime, k, kind) ==
    [i \in 1..k |->
        InteractionEvent(bedtime + i, kind.duration, kind.type, "UNKNOWN")]

ConfirmationsNear(bedtime) ==
    {<< >>} \cup
    { <<InteractionEvent(bedtime + c, 0, "SLEEP_CONFIRMATION", "SYSTEM")>> :
          c \in ConfirmationOffsets }

NightSnapshot(bedtime, k, kind, length, confirmation) ==
    SortEvents(<<InteractionEvent(bedtime, 60000, "MEANINGFUL_USE", "UNKNOWN")>>
               \o BriefEventsAfter(bedtime, k, kind) \o confirmation
               \o <<InteractionEvent(bedtime + length, 60000,
                                     "MEANINGFUL_USE", "UNKNOWN")>>)

SnapshotInputs ==
    UNION { { NightSnapshot(bedtime, k, kind, length, confirmation) :
                  k \in 0..MaxBriefChecks, kind \in BriefKinds,
                  length \in AnalysisLengths,
                  confirmation \in ConfirmationsNear(bedtime) } :
            bedtime \in AnalysisBedtimes }

InitAnalysis ==
    /\ \E preferences \in AnalysisPreferences : Constructed(preferences)
    /\ ThreadsIdle
    /\ snapshot \in SnapshotInputs
    /\ analysis = NoAnalysis
    /\ helper = NoHelper
    /\ ValueInitializedMatcher

\* detectInteractionGaps on the snapshot, as findSleepStartTime calls it.
AnalyzeGaps ==
    /\ analysis.op # "detectInteractionGaps"
    /\ analysis' = [NoAnalysis EXCEPT
                      !.op = "detectInteractionGaps",
                      !.gaps = detectInteractionGaps(snapshot,
                                   preferences_.minimum_interaction_gap)]
    /\ UNCHANGED <<detectorVars, threadVars, snapshot, pureVars>>

\* Lines 84-137 of detectSleepPeriod on the snapshot.
AnalyzeSleepPeriod(current_time) ==
    /\ analysis' = [NoAnalysis EXCEPT
                      !.op = "detectSleepPeriod",
                      !.current_time = current_time,
                      !.result = ComputeResult(snapshot, current_time, preferences_)]
    /\ UNCHANGED <<detectorVars, threadVars, snapshot, pureVars>>

\* calculateConfidenceScore on a session that detectSleepPeriod returned.
AnalyzeConfidence ==
    /\ analysis.op = "detectSleepPeriod"
    /\ analysis' = [analysis EXCEPT
                      !.op = "calculateConfidenceScore",
                      !.score = calculateConfidenceScore(analysis.result,
                                                         preferences_)]
    /\ UNCHANGED <<detectorVars, threadVars, snapshot, pureVars>>

\* getEstimatedSleepStart on the snapshot (lines 239-244).
AnalyzeSleepStart(current_time) ==
    /\ analysis' = [NoAnalysis EXCEPT
                      !.op = "getEstimatedSleepStart",
                      !.current_time = current_time,
                      !.start = EstimatedSleepStart(snapshot, current_time,
                                                    preferences_)]
    /\ UNCHANGED <<detectorVars, threadVars, snapshot, pureVars>>

NextAnalysis ==
    \/ AnalyzeGaps
    \/ \E delay \in AnalysisDelays :
          AnalyzeSleepPeriod(snapshot[Len(snapshot)].timestamp + delay)
    \/ AnalyzeConfidence
    \/ \E delay \in AnalysisDelays :
          AnalyzeSleepStart(snapshot[Len(snapshot)].timestamp + delay)

SpecAnalysis == InitAnalysis /\ [][NextAnalysis]_vars

\* Two nights in one snapshot: a first event at 01:00, meaningful use or a
\* time check, k1 time checks, a meaningful-use event five hours later, k2
\* time checks, and a last meaningful-use event `length` minutes after it.
FirstEvents ==
    { InteractionEvent(60, 60000, "MEANINGFUL_USE", "UNKNOWN"),
      InteractionEvent(60, 10000, "TIME_CHECK", "UNKNOWN") }

TwoNightSnapshot(first, k1, k2, length) ==
    SortEvents(<<first>>
               \o BriefEventsAfter(60, k1, [type |-> "TIME_CHECK", duration |-> 10000])
               \o <<InteractionEvent(360, 60000, "MEANINGFUL_USE", "UNKNOWN")>>
               \o BriefEventsAfter(360, k2, [type |-> "TIME_CHECK", duration |-> 10000])
               \o <<InteractionEvent(360 + length, 60000,
                                     "MEANINGFUL_USE", "UNKNOWN")>>)

TwoNightInputs ==
    { TwoNightSnapshot(first, k1, k2, length) :
          first \in FirstEvents, k1 \in {0, 4, 5}, k2 \in {0, 4, 5},
          length \in {30, 300} }

InitNights ==
    /\ \E preferences \in AnalysisPreferences : Constructed(preferences)
    /\ ThreadsIdle
    /\ snapshot \in TwoNightInputs
    /\ analysis = NoAnalysis
    /\ helper = NoHelper
    /\ ValueInitializedMatcher

\* The same helpers applied to snapshots of two nights.
SpecNights == InitNights /\ [][NextAnalysis]_vars

\* ------------------------------------------------------ concurrent callers
\* The calls of the public interface executed by the host threads statement
\* by statement.  A statement sequence that runs with events_mutex_ held and
\* touches only what the mutex protects is one step.  The history variables
\* insert_rank and lastCall are not maintained here: a returned result leaves
\* the detector with the caller.
\* The threads that call detectSleepPeriod, and the threads that ingest
\* events, purge and change the settings.
DetectorThreads == {1, 2}

HostThreads == {2}

ThreadEventInputs ==
    { InteractionEvent(t, 60000, "MEANINGFUL_USE", "UNKNOWN") : t \in {0, 60} }

ThreadDetectTimes == {60}

ThreadCutoffTimes == {30}

ThreadPreferenceInputs == {DefaultPreferences, UserPreferences(60, 3600, 70)}

bufferVars == <<recent_events_, event_write_index_, event_buffer_full_>>

historyVars ==
    <<total_sleep_sessions_, insert_rank, snapshot, analysis, pureVars>>

InitThreads ==
    /\ \E preferences \in ThreadPreferenceInputs : Constructed(preferences)
    /\ ThreadsIdle
    /\ snapshot = << >>
    /\ analysis = NoAnalysis
    /\ helper = NoHelper
    /\ ValueInitializedMatcher

\* The call of thread self returns.
ThreadReturns(self) ==
    /\ pc' = [pc EXCEPT ![self] = "idle"]
    /\ frame' = [frame EXCEPT ![self] = IdleFrame]

GoTo(self, label) == pc' = [pc EXCEPT ![self] = label]

\* Thread self is at the first statement of the operation op: it makes the
\* call now, or it has made it and has not yet passed the first lock_guard.
Called(self, op) ==
    \/ pc[self] = "idle"
    \/ pc[self] = "entered" /\ frame[self].op = op

\* detectSleepPeriod is entered; canUseCachedResult tests has_value (line 439)
\* without holding events_mutex_.
DetectTestsCache(self, current_time) ==
    /\ pc[self] = "idle"
    /\ frame' = [frame EXCEPT ![self] =
                    [IdleFrame EXCEPT !.op = "detectSleepPeriod",
                                      !.current_time = current_time]]
    /\ GoTo(self, IF cached_result_.has_value
                  THEN "canUseCachedResult" ELSE "getSortedEvents")
    /\ UNCHANGED <<bufferVars, preferences_, cached_result_, last_cache_update_,
                   lastCall, events_mutex_, cache_source, historyVars,
                   metrics_mutex_>>

\* canUseCachedResult reads last_cache_update_ (lines 443-444), unlocked.
DetectTestsAge(self) ==
    /\ pc[self] = "canUseCachedResult"
    /\ GoTo(self, IF frame[self].current_time - last_cache_update_
                        < CACHE_VALIDITY_DURATION
                  THEN "return_cached" ELSE "getSortedEvents")
    /\ UNCHANGED <<bufferVars, preferences_, cached_result_, last_cache_update_,
                   lastCall, events_mutex_, frame, cache_source, historyVars,
                   metrics_mutex_>>

\* Lines 80-81: recordPerformanceMetric takes metrics_mutex_, updates the
\* metric and releases it; then return *cached_result_, unlocked; the value
\* read goes to the caller.
DetectReturnsCached(self) ==
    /\ pc[self] = "return_cached"
    /\ metrics_mutex_ = 0
    /\ ThreadReturns(self)
    /\ UNCHANGED <<bufferVars, preferences_, cached_result_, last_cache_update_,
                   lastCall, events_mutex_, cache_source, historyVars,
                   metrics_mutex_>>

getSortedEventsUnlocked == TRUE

\* line 492: the lock_guard of getSortedEvents can be taken
getSortedEventsLocked == events_mutex_ = 0

\* getSortedEvents (line 85): lock, copy, sort, unlock.
DetectTakesSnapshot(self) ==
    /\ pc[self] = "getSortedEvents"
    /\ getSortedEventsLocked
    /\ frame' = [frame EXCEPT ![self].events = getSortedEvents]
    /\ GoTo(self, "findSleepStartTime")
    /\ UNCHANGED <<bufferVars, preferences_, cached_result_, last_cache_update_,
                   lastCall, events_mutex_, cache_source, historyVars,
                   metrics_mutex_>>

\* Lines 86-110: the size test, findSleepStartTime, which reads
\* minimum_interaction_gap through preferences_.load(), and findSleepEndTime.
\* A result without bedtime or wake time is returned at once.
DetectFindsSleep(self) ==
    /\ pc[self] = "findSleepStartTime"
    /\ LET result == ComputeResult(frame[self].events, frame[self].current_time,
                                   preferences_)
       IN  IF result.bedtime.has_value /\ result.wake_time.has_value
           THEN /\ frame' = [frame EXCEPT ![self].minimum_interaction_gap =
                                            preferences_.minimum_interaction_gap]
                /\ GoTo(self, "calculateConfidenceScore")
           ELSE ThreadReturns(self)
    /\ UNCHANGED <<bufferVars, preferences_, cached_result_, last_cache_update_,
                   lastCall, events_mutex_, cache_source, historyVars,
                   metrics_mutex_>>

\* The preferences a detection has worked with when it scores: the gap read
\* by findSleepStartTime and the fields read now.
PreferencesSeen(self) ==
    [preferences_ EXCEPT
        !.minimum_interaction_gap = frame[self].minimum_interaction_gap]

\* Lines 113-137 and 150: calculateConfidenceScore and
\* evaluatePatternConsistency read target_sleep_hours and the bedtimes
\* through preferences_.load(); a result that is not valid is returned.
DetectScores(self) ==
    /\ pc[self] = "calculateConfidenceScore"
    /\ LET result == ComputeResult(frame[self].events, frame[self].current_time,
                                   PreferencesSeen(self))
       IN  IF ResultIsValid(result)
           THEN /\ frame' = [frame EXCEPT ![self].result = result]
                /\ GoTo(self, "cache_store")
           ELSE ThreadReturns(self)
    /\ UNCHANGED <<bufferVars, preferences_, cached_result_, last_cache_update_,
                   lastCall, events_mutex_, cache_source, historyVars,
                   metrics_mutex_>>

\* Lines 141-142: the mutex is taken and cached_result_ assigned.
DetectStoresResult(self) ==
    /\ pc[self] = "cache_store"
    /\ events_mutex_ = 0
    /\ events_mutex_' = self
    /\ cached_result_' = Some(frame[self].result)
    /\ cache_source' = frame[self].events
    /\ GoTo(self, "cache_stamp")
    /\ UNCHANGED <<bufferVars, preferences_, last_cache_update_, lastCall,
                   frame, historyVars,
                   metrics_mutex_>>

\* Lines 143-150: last_cache_update_ assigned, the mutex released, return.
DetectStampsCache(self) ==
    /\ pc[self] = "cache_stamp"
    /\ last_cache_update_' = frame[self].current_time
    /\ events_mutex_' = 0
    /\ ThreadReturns(self)
    /\ UNCHANGED <<bufferVars, preferences_, cached_result_, lastCall,
                   cache_source, historyVars,
                   metrics_mutex_>>

\* addInteractionEvent, lines 51-61: the mutex is taken and the event stored.
AddStoresEvent(self, event) ==
    /\ Called(self, "addInteractionEvent")
    /\ events_mutex_ = 0
    /\ events_mutex_' = self
    /\ IF Len(recent_events_) < MAX_EVENTS_CACHE
       THEN /\ recent_events_' = Append(recent_events_, event)
            /\ UNCHANGED <<event_write_index_, event_buffer_full_>>
       ELSE /\ recent_events_' =
                  [recent_events_ EXCEPT ![event_write_index_ + 1] = event]
            /\ event_write_index_' = NextWriteIndex(event_write_index_)
            /\ event_buffer_full_' = TRUE
    /\ frame' = [frame EXCEPT ![self] =
                    [IdleFrame EXCEPT !.op = "addInteractionEvent",
                                      !.event = event]]
    /\ GoTo(self, "add_reset")
    /\ UNCHANGED <<preferences_, cached_result_, last_cache_update_, lastCall,
                   cache_source, historyVars,
                   metrics_mutex_>>

\* addInteractionEvent, lines 67-71: the cache is reset, the mutex released.
AddResetsCache(self) ==
    /\ pc[self] = "add_reset"
    /\ cached_result_' = InvalidateOnAdd(cached_result_)
    /\ events_mutex_' = 0
    /\ ThreadReturns(self)
    /\ UNCHANGED <<bufferVars, preferences_, last_cache_update_, lastCall,
                   cache_source, historyVars,
                   metrics_mutex_>>

\* clearOldData, lines 252-260: the mutex is taken and std::remove_if moves
\* the retained events to the front; the elements behind them keep what
\* they held.  optimizeMemory calls clearOldData at line 338.
ClearRemoves(self, cutoff_time) ==
    /\ Called(self, "clearOldData") \/ pc[self] = "optimize_clearOldData"
    /\ events_mutex_ = 0
    /\ events_mutex_' = self
    /\ LET kept == {i \in 1..Len(recent_events_) :
                       ~IsOlderThan(recent_events_[i], cutoff_time)}
           slotOf(j) == CHOOSE i \in kept : Cardinality({k \in kept : k <= i}) = j
       IN  /\ recent_events_' =
                 [j \in 1..Len(recent_events_) |->
                     IF j <= Cardinality(kept) THEN recent_events_[slotOf(j)]
                     ELSE recent_events_[j]]
           /\ frame' = [frame EXCEPT ![self] =
                           [IdleFrame EXCEPT !.op =
                                                 IF pc[self] = "optimize_clearOldData"
                                                 THEN "optimizeMemory"
                                                 ELSE "clearOldData",
                                             !.current_time = cutoff_time,
                                             !.new_end = Cardinality(kept)]]
    /\ GoTo(self, "clear_erase")
    /\ UNCHANGED <<event_write_index_, event_buffer_full_, preferences_,
                   cached_result_, last_cache_update_, lastCall, cache_source,
                   historyVars,
                   metrics_mutex_>>

\* clearOldData, lines 261-269: erase, then the buffer bookkeeping.
ClearErases(self) ==
    /\ pc[self] = "clear_erase"
    /\ recent_events_' = SubSeq(recent_events_, 1, frame[self].new_end)
    /\ IF frame[self].new_end < MAX_EVENTS_CACHE
       THEN event_buffer_full_' = FALSE /\ event_write_index_' = 0
       ELSE UNCHANGED <<event_buffer_full_, event_write_index_>>
    /\ GoTo(self, "clear_reset")
    /\ UNCHANGED <<preferences_, cached_result_, last_cache_update_, lastCall,
                   events_mutex_, frame, cache_source, historyVars,
                   metrics_mutex_>>

\* clearOldData, lines 272-276: the cache is reset, the mutex released;
\* the call returns to the host, or to line 339 of optimizeMemory.
ClearResetsCache(self) ==
    /\ pc[self] = "clear_reset"
    /\ cached_result_' = InvalidateOnClear(cached_result_)
    /\ events_mutex_' = 0
    /\ IF frame[self].op = "optimizeMemory"
       THEN GoTo(self, "optimize_shrink") /\ UNCHANGED frame
       ELSE ThreadReturns(self)
    /\ UNCHANGED <<bufferVars, preferences_, last_cache_update_, lastCall,
                   cache_source, historyVars,
                   metrics_mutex_>>

\* updateUserPreferences is entered with valid preferences (lines 194-197);
\* one settings update runs at a time.
UpdateBegins(self, new_preferences) ==
    /\ pc[self] = "idle"
    /\ PrefsIsValid(new_preferences)
    /\ \A other \in Threads : pc[other] # "preferences_copy"
    /\ frame' = [frame EXCEPT ![self] =
                    [IdleFrame EXCEPT !.op = "updateUserPreferences",
                                      !.new_preferences = new_preferences]]
    /\ GoTo(self, "preferences_copy")
    /\ UNCHANGED <<bufferVars, preferences_, cached_result_, last_cache_update_,
                   lastCall, events_mutex_, cache_source, historyVars,
                   metrics_mutex_>>

\* Line 200: *preferences_storage_ = new_preferences copies member by member
\* into the object the readers are using, in no order the readers can rely
\* on; one member that differs is copied.
UpdateCopiesMember(self) ==
    /\ pc[self] = "preferences_copy"
    /\ \E member \in DOMAIN preferences_ :
          /\ preferences_[member] # frame[self].new_preferences[member]
          /\ preferences_' =
                [preferences_ EXCEPT ![member] = frame[self].new_preferences[member]]
    /\ UNCHANGED <<bufferVars, cached_result_, last_cache_update_, lastCall,
                   events_mutex_, pc, frame, cache_source, historyVars,
                   metrics_mutex_>>

\* Lines 201-208: the copy is complete, the pointer is stored again and the
\* cache reset, without holding events_mutex_.
UpdateResetsCache(self) ==
    /\ pc[self] = "preferences_copy"
    /\ preferences_ = frame[self].new_preferences
    /\ cached_result_' = InvalidateOnPreferences(cached_result_)
    /\ ThreadReturns(self)
    /\ UNCHANGED <<bufferVars, preferences_, last_cache_update_, lastCall,
                   events_mutex_, cache_source, historyVars,
                   metrics_mutex_>>

NextThreads ==
    \/ \E self \in DetectorThreads :
          \/ \E current_time \in ThreadDetectTimes :
                DetectTestsCache(self, current_time)
          \/ DetectTestsAge(self)
          \/ DetectReturnsCached(self)
          \/ DetectTakesSnapshot(self)
          \/ DetectFindsSleep(self)
          \/ DetectScores(self)
          \/ DetectStoresResult(self)
          \/ DetectStampsCache(self)
    \/ \E self \in HostThreads :
          \/ \E event \in ThreadEventInputs : AddStoresEvent(self, event)
          \/ AddResetsCache(self)
          \/ \E cutoff_time \in ThreadCutoffTimes : ClearRemoves(self, cutoff_time)
          \/ ClearErases(self)
          \/ ClearResetsCache(self)
          \/ \E new_preferences \in ThreadPreferenceInputs :
                UpdateBegins(self, new_preferences)
          \/ UpdateCopiesMember(self)
          \/ UpdateResetsCache(self)

SpecThreads == InitThreads /\ [][NextThreads]_vars

\* -------------------------------------------------- the two mutexes
\* The operations that take events_mutex_ or metrics_mutex_, executed by
\* the two threads statement by statement.  A call is made in a step of
\* its own, so that a thread waiting at its first lock_guard is inside the
\* call.
LockFirstOperations ==
    {"addInteractionEvent", "clearOldData", "getPerformanceMetrics",
     "getStatistics", "optimizeMemory"}

\* The events arrive in the order of their time stamps: the first event of
\* an empty buffer is a use at 00:00, every later one a use at 01:00.
LockEventInputs ==
    { InteractionEvent(IF recent_events_ = << >> THEN 0 ELSE 60, 60000,
                       "MEANINGFUL_USE", "UNKNOWN") }

InitLocks ==
    /\ Constructed(UserPreferences(60, 3600, 70))
    /\ ThreadsIdle
    /\ snapshot = << >>
    /\ analysis = NoAnalysis
    /\ helper = NoHelper
    /\ ValueInitializedMatcher

\* The host calls an operation whose first statement that touches shared
\* state is a lock_guard.
EnterCall(self, op) ==
    /\ pc[self] = "idle"
    /\ frame' = [frame EXCEPT ![self] = [IdleFrame EXCEPT !.op = op]]
    /\ GoTo(self, "entered")
    /\ UNCHANGED <<bufferVars, preferences_, cached_result_, last_cache_update_,
                   lastCall, events_mutex_, metrics_mutex_, cache_source,
                   historyVars>>

ReleaseMetricsGuardKept(self) == self

\* line 283: the lock_guard of getPerformanceMetrics is destroyed on return
ReleaseMetricsGuard(self) == 0

\* getPerformanceMetrics, line 281, called by the host or by getStatistics
\* (line 314): metrics_mutex_ is taken.
MetricsTakesGuard(self) ==
    /\ pc[self] = "entered"
    /\ frame[self].op \in {"getPerformanceMetrics", "getStatistics"}
    /\ metrics_mutex_ = 0
    /\ metrics_mutex_' = self
    /\ GoTo(self, "metrics_copy")
    /\ UNCHANGED <<bufferVars, preferences_, cached_result_, last_cache_update_,
                   lastCall, events_mutex_, frame, cache_source, historyVars>>

\* getPerformanceMetrics, lines 282-283: the map is copied and the guard
\* destroyed; getStatistics goes on at line 315.
MetricsReturns(self) ==
    /\ pc[self] = "metrics_copy"
    /\ metrics_mutex_' = ReleaseMetricsGuard(self)
    /\ IF frame[self].op = "getStatistics"
       THEN GoTo(self, "statistics_events") /\ UNCHANGED frame
       ELSE ThreadReturns(self)
    /\ UNCHANGED <<bufferVars, preferences_, cached_result_, last_cache_update_,
                   lastCall, events_mutex_, cache_source, historyVars>>

\* getStatistics, line 321: events_mutex_ is taken.
StatisticsTakesGuard(self) ==
    /\ pc[self] = "statistics_events"
    /\ events_mutex_ = 0
    /\ events_mutex_' = self
    /\ GoTo(self, "statistics_return")
    /\ UNCHANGED <<bufferVars, preferences_, cached_result_, last_cache_update_,
                   lastCall, metrics_mutex_, frame, cache_source, historyVars>>

\* getStatistics, lines 322-325: the size is read, the guard destroyed.
StatisticsReturns(self) ==
    /\ pc[self] = "statistics_return"
    /\ events_mutex_' = 0
    /\ ThreadReturns(self)
    /\ UNCHANGED <<bufferVars, preferences_, cached_result_, last_cache_update_,
                   lastCall, metrics_mutex_, cache_source, historyVars>>

\* optimizeMemory, line 332: metrics_mutex_ is taken.
OptimizeTakesMetrics(self) ==
    /\ pc[self] = "entered"
    /\ frame[self].op = "optimizeMemory"
    /\ metrics_mutex_ = 0
    /\ metrics_mutex_' = self
    /\ GoTo(self, "optimize_metrics")
    /\ UNCHANGED <<bufferVars, preferences_, cached_result_, last_cache_update_,
                   lastCall, events_mutex_, frame, cache_source, historyVars>>

\* optimizeMemory, lines 333-334: the metrics are cleared, the block ends.
OptimizeClearsMetrics(self) ==
    /\ pc[self] = "optimize_metrics"
    /\ metrics_mutex_' = 0
    /\ GoTo(self, "optimize_clearOldData")
    /\ UNCHANGED <<bufferVars, preferences_, cached_result_, last_cache_update_,
                   lastCall, events_mutex_, frame, cache_source, historyVars>>

\* optimizeMemory, lines 337-338: clearOldData with the cutoff seven days
\* before the wall clock.
OptimizeClearsOldData(self, now) ==
    /\ pc[self] = "optimize_clearOldData"
    /\ ClearRemoves(self, now - 7 * MinutesPerDay)

\* optimizeMemory, line 342: events_mutex_ is taken.
OptimizeTakesEvents(self) ==
    /\ pc[self] = "optimize_shrink"
    /\ events_mutex_ = 0
    /\ events_mutex_' = self
    /\ GoTo(self, "optimize_return")
    /\ UNCHANGED <<bufferVars, preferences_, cached_result_, last_cache_update_,
                   lastCall, metrics_mutex_, frame, cache_source, historyVars>>

\* optimizeMemory, lines 343-347: shrink_to_fit, the block ends, return.
OptimizeReturns(self) ==
    /\ pc[self] = "optimize_return"
    /\ events_mutex_' = 0
    /\ ThreadReturns(self)
    /\ UNCHANGED <<bufferVars, preferences_, cached_result_, last_cache_update_,
                   lastCall, metrics_mutex_, cache_source, historyVars>>

\* A step of thread self that takes a mutex.
Acquires(self) ==
    \/ DetectReturnsCached(self)
    \/ DetectTakesSnapshot(self)
    \/ DetectStoresResult(self)
    \/ pc[self] = "entered" /\ \E event \in LockEventInputs :
                                   AddStoresEvent(self, event)
    \/ pc[self] = "entered" /\ \E cutoff_time \in ThreadCutoffTimes :
                                   ClearRemoves(self, cutoff_time)
    \/ MetricsTakesGuard(self)
    \/ StatisticsTakesGuard(self)
    \/ OptimizeTakesMetrics(self)
    \/ \E now \in {7 * MinutesPerDay + 30} : OptimizeClearsOldData(self, now)
    \/ OptimizeTakesEvents(self)

\* A step of thread self inside a call that takes no mutex.
Runs(self) ==
    \/ DetectTestsAge(self)
    \/ DetectFindsSleep(self)
    \/ DetectScores(self)
    \/ DetectStampsCache(self)
    \/ AddResetsCache(self)
    \/ ClearErases(self)
    \/ ClearResetsCache(self)
    \/ MetricsReturns(self)
    \/ StatisticsReturns(self)
    \/ OptimizeClearsMetrics(self)
    \/ OptimizeReturns(self)

\* The statements at which a thread inside a call waits for no mutex.
RunLabels ==
    {"canUseCachedResult", "findSleepStartTime", "calculateConfidenceScore",
     "cache_stamp", "add_reset", "clear_erase", "clear_reset", "metrics_copy",
     "statistics_return", "optimize_metrics", "optimize_return"}

LockLabels ==
    {"entered", "getSortedEvents", "return_cached", "cache_store",
     "statistics_events", "optimize_clearOldData", "optimize_shrink"}

\* The mutex whose lock_guard thread self is about to construct.
MutexAwaited(self) ==
    IF \/ pc[self] = "return_cached"
       \/ /\ pc[self] = "entered"
          /\ frame[self].op \in {"getPerformanceMetrics", "getStatistics",
                                  "optimizeMemory"}
    THEN metrics_mutex_
    ELSE events_mutex_

\* Thread self leaves a statement at which it waits for no mutex.
Proceeds(self) ==
    /\ pc[self] \in RunLabels
    /\ \E label \in (RunLabels \cup LockLabels \cup {"idle"}) \ {pc[self]} :
          pc' = [pc EXCEPT ![self] = label]

\* Thread self is given the mutex it waits for.
Takes(self) ==
    /\ pc[self] \in LockLabels
    /\ MutexAwaited(self) = 0
    /\ \E label \in (RunLabels \cup LockLabels \cup {"idle"}) \ {pc[self]} :
          pc' = [pc EXCEPT ![self] = label]

NextLocks ==
    \E self \in Threads :
        \/ \E op \in LockFirstOperations : EnterCall(self, op)
        \/ \E current_time \in ThreadDetectTimes :
              DetectTestsCache(self, current_time)
        \/ Acquires(self)
        \/ Runs(self)

SpecLocks == InitLocks /\ [][NextLocks]_vars

\* The scheduler runs every thread that can run, and a mutex that is free
\* again and again is eventually given to a thread that waits for it.
SpecLocksFair ==
    /\ SpecLocks
    /\ \A self \in Threads : WF_pc(Proceeds(self)) /\ SF_pc(Takes(self))


\* ------------------------------------------------ classifyInteraction
\* InteractionAnalyzer::classifyInteraction is defined twice in the
\* repository: in core/sleep_detector.cpp and in core/interaction_analyzer.cpp.
classifyInteractionNotSticky(event, recent_history) ==
    IF event.duration < 15000 THEN "TIME_CHECK"
    ELSE IF event.duration < 300000 THEN "MEANINGFUL_USE"
    ELSE "EXTENDED_USE"

\* core/sleep_detector.cpp, lines 602-631
classifyInteraction(event, recent_history) ==
    IF event.type # "UNKNOWN" THEN event.type
    ELSE IF event.duration < 15000 THEN "TIME_CHECK"
    ELSE IF event.duration < 30000
    THEN IF /\ recent_history # << >>
            /\ event.timestamp - recent_history[Len(recent_history)].timestamp < 2
            /\ recent_history[Len(recent_history)].type = "MEANINGFUL_USE"
         THEN "MEANINGFUL_USE"
         ELSE "TIME_CHECK"
    ELSE IF event.duration < 300000 THEN "MEANINGFUL_USE"
    ELSE "EXTENDED_USE"

\* core/interaction_analyzer.cpp, lines 15-61
classifyInteraction_analyzer(event, context) ==
    IF event.type # "UNKNOWN" THEN event.type
    ELSE IF event.duration < 10000 THEN "TIME_CHECK"
    ELSE IF event.duration < 30000
    THEN IF /\ context # << >>
            /\ event.timestamp - context[Len(context)].timestamp < 2
            /\ context[Len(context)].type = "MEANINGFUL_USE"
         THEN "MEANINGFUL_USE"
         ELSE IF event.category = "CLOCK_ALARM" THEN "TIME_CHECK"
         ELSE "TIME_CHECK"
    ELSE IF event.duration < 300000 THEN "MEANINGFUL_USE"
    ELSE "EXTENDED_USE"

InteractionTypes ==
    {"UNKNOWN", "TIME_CHECK", "MEANINGFUL_USE", "NOTIFICATION_RESPONSE",
     "EXTENDED_USE", "SLEEP_CONFIRMATION"}

\* Durations in milliseconds on both sides of every threshold of the two
\* definitions.
ClassifyDurations ==
    {0, 9999, 10000, 14999, 15000, 29999, 30000, 299999, 300000}

\* The classified event happens at minute 10.
ClassifyEvents ==
    { InteractionEvent(10, d, t, c) :
          d \in ClassifyDurations, t \in InteractionTypes,
          c \in {"UNKNOWN", "CLOCK_ALARM"} }

\* The history handed in: empty, or ending with an event one or two minutes
\* before the classified one, or one minute after it.
ClassifyContexts ==
    {<< >>} \cup
    { <<InteractionEvent(0, 60000, "MEANINGFUL_USE", "UNKNOWN"),
        InteractionEvent(t, 60000, ty, "UNKNOWN")>> :
          t \in {8, 9, 11}, ty \in {"MEANINGFUL_USE", "TIME_CHECK"} }

ClassifyImplementations == {"sleep_detector.cpp", "interaction_analyzer.cpp"}

Classified(implementation, event, context) ==
    IF implementation = "sleep_detector.cpp"
    THEN classifyInteraction(event, context)
    ELSE classifyInteraction_analyzer(event, context)

InitClassify ==
    /\ Constructed(DefaultPreferences)
    /\ ThreadsIdle
    /\ snapshot = << >>
    /\ analysis = NoAnalysis
    /\ \E event \in ClassifyEvents, context \in ClassifyContexts :
          helper = [op |-> "none", implementation |-> "none", event |-> event,
                    context |-> context, type |-> "UNKNOWN",
                    again |-> "UNKNOWN", time_check |-> FALSE,
                    meaningful_use |-> FALSE]
    /\ ValueInitializedMatcher

\* One of the two definitions classifies the event.
ClassifyEvent(implementation) ==
    /\ helper.op = "none"
    /\ helper' = [helper EXCEPT
                    !.op = "classifyInteraction",
                    !.implementation = implementation,
                    !.type = Classified(implementation, helper.event,
                                        helper.context)]
    /\ UNCHANGED <<detectorVars, threadVars, analysisVars, matcherVars>>

\* The caller assigns the returned type to the event and has the same
\* definition classify it once more.
ClassifyAgain ==
    /\ helper.op = "classifyInteraction"
    /\ helper' = [helper EXCEPT
                    !.op = "classifyInteraction again",
                    !.again = Classified(helper.implementation,
                                         [helper.event EXCEPT !.type = helper.type],
                                         helper.context)]
    /\ UNCHANGED <<detectorVars, threadVars, analysisVars, matcherVars>>

\* The two predicates on the event: the members of InteractionEvent, or the
\* static functions of InteractionAnalyzer.
ApplyPredicates(implementation) ==
    /\ helper.op = "none"
    /\ helper' = [helper EXCEPT
                    !.op = "predicates",
                    !.implementation = implementation,
                    !.time_check =
                        IF implementation = "puuyapu_types.h"
                        THEN isTimeCheck(helper.event)
                        ELSE isTimeCheck_analyzer(helper.event),
                    !.meaningful_use =
                        IF implementation = "puuyapu_types.h"
                        THEN isMeaningfulUse(helper.event)
                        ELSE isMeaningfulUsage(helper.event)]
    /\ UNCHANGED <<detectorVars, threadVars, analysisVars, matcherVars>>

NextClassify ==
    \/ \E implementation \in ClassifyImplementations :
          ClassifyEvent(implementation)
    \/ ClassifyAgain
    \/ \E implementation \in {"puuyapu_types.h", "interaction_analyzer.h"} :
          ApplyPredicates(implementation)

SpecClassify == InitClassify /\ [][NextClassify]_vars

\* ------------------------------------------------ bridge and wall clock
\* The entry points of jni/sleep_tracker_jni.cpp that ingest events, and the
\* two operations of the core that read std::chrono::system_clock::now().
\* The wall clock is an input of the environment.
MinutesPerWeek == 7 * MinutesPerDay

WallClockTimes == {61, MinutesPerWeek + 61}

BridgeTimestamps == {0, 60}

BridgeDurations == {0 - 5000, 60000}

BridgeAppTypes == {"UNKNOWN"}

\* jni/sleep_tracker_jni.cpp, lines 262-276 and 477-492: the event built
\* from the Java arguments.
JNIEvent(timestamp, appType, duration) ==
    InteractionEvent(timestamp, duration,
                     IF duration < 30000 THEN "TIME_CHECK"
                     ELSE IF duration < 300000 THEN "MEANINGFUL_USE"
                     ELSE "EXTENDED_SESSION",
                     appType)

\* Java_..._addInteractionEvent, lines 247-288
JNI_addInteractionEvent(timestamp, appType, duration) ==
    StoreEvent(JNIEvent(timestamp, appType, duration),
               "JNI addInteractionEvent")

\* Java_..._processBatchInteractions, lines 435-504, for arrays of one
\* element.
JNI_processBatchInteractions(timestamp, appType, duration) ==
    StoreEvent(JNIEvent(timestamp, appType, duration),
               "JNI processBatchInteractions")

\* optimizeMemory, lines 327-347: the cutoff is seven days before the wall
\* clock.
optimizeMemory(now) == RemoveOlder(now - MinutesPerWeek, "optimizeMemory")

\* InteractionAnalyzer::detectSleepPattern, lines 659-680
detectSleepPattern(events, preferences, now) ==
    LET meaningful == {i \in 1..Len(events) : isMeaningfulUse(events[i])}
    IN  IF events = << >> THEN FALSE
        ELSE IF meaningful = {} THEN FALSE
        ELSE (now - events[MaxOf(meaningful)].timestamp) * 60
                 >= preferences.minimum_interaction_gap

\* The host hands the sorted snapshot and the preferences to
\* detectSleepPattern.
AnalyzeSleepPattern(now) ==
    /\ helper' = [op |-> "detectSleepPattern", events |-> getSortedEvents,
                  preferences |-> preferences_,
                  result |-> detectSleepPattern(getSortedEvents, preferences_,
                                                now)]
    /\ UNCHANGED <<detectorVars, threadVars, analysisVars, matcherVars>>

\* Java_..._initializeNative, lines 212-245: default preferences.
InitBridge ==
    /\ Constructed(DefaultPreferences)
    /\ ThreadsIdle
    /\ snapshot = << >>
    /\ analysis = NoAnalysis
    /\ helper = NoHelper
    /\ ValueInitializedMatcher

NextBridge ==
    \/ \E timestamp \in BridgeTimestamps, appType \in BridgeAppTypes,
          duration \in BridgeDurations :
          JNI_addInteractionEvent(timestamp, appType, duration)
              /\ UNCHANGED <<threadVars, analysisVars, pureVars>>
    \/ \E timestamp \in BridgeTimestamps, appType \in BridgeAppTypes,
          duration \in BridgeDurations :
          JNI_processBatchInteractions(timestamp, appType, duration)
              /\ UNCHANGED <<threadVars, analysisVars, pureVars>>
    \/ \E now \in WallClockTimes :
          optimizeMemory(now) /\ UNCHANGED <<threadVars, analysisVars, pureVars>>
    \/ \E now \in WallClockTimes : AnalyzeSleepPattern(now)

SpecBridge == InitBridge /\ [][NextBridge]_vars

\* ------------------------------------------------- binary serialization
\* DataProcessor::serializeToBinary and deserializeFromBinary
\* (core/data_processor.cpp).  A time point is [ms, us]: whole milliseconds
\* since the epoch and the microseconds beyond them, of the same sign.  A
\* double is exact; a float is [m, e], the value m * 2^e with
\* m < 2^FloatMantissaBits.  memcpy of a float is modelled by four bytes
\* that hold m and e.
RECURSIVE Pow2(_)
Pow2(n) == IF n = 0 THEN 1 ELSE 2 * Pow2(n - 1)

RECURSIVE NormalizeFloat(_, _, _)
NormalizeFloat(num, den, e) ==
    IF num \div den >= Pow2(FloatMantissaBits)
    THEN NormalizeFloat(num, 2 * den, e + 1)
    ELSE IF num \div den < Pow2(FloatMantissaBits - 1)
    THEN NormalizeFloat(2 * num, den, e - 1)
    ELSE [num |-> num, den |-> den, e |-> e]

\* static_cast<float>(double) of num/den >= 0: round to nearest, ties to even.
ToFloat(num, den) ==
    IF num = 0 THEN [m |-> 0, e |-> 0]
    ELSE LET n == NormalizeFloat(num, den, 0)
             f == n.num \div n.den
             r == n.num % n.den
             up == 2 * r > n.den \/ (2 * r = n.den /\ f % 2 = 1)
             m == IF up THEN f + 1 ELSE f
         IN  IF m = Pow2(FloatMantissaBits)
             THEN [m |-> m \div 2, e |-> n.e + 1]
             ELSE [m |-> m, e |-> n.e]

RECURSIVE IntToBytes(_, _)
IntToBytesLowWord(value, size) ==
    [i \in 1..size |->
        IF i = 1 THEN value % 256
        ELSE IF i = 2 THEN (value \div 256) % 256
        ELSE 0]

\* memcpy of an integer of `size` bytes, little endian, two's complement.
IntToBytes(value, size) ==
    IF size = 0 THEN << >>
    ELSE <<value % 256>> \o IntToBytes(value \div 256, size - 1)

RECURSIVE BytesToUnsigned(_)
BytesToUnsigned(bytes) ==
    IF bytes = << >> THEN 0
    ELSE bytes[1] + 256 * BytesToUnsigned(Tail(bytes))

\* memcpy into a signed integer
RECURSIVE BytesToInt(_)
BytesToInt(bytes) ==
    IF Len(bytes) = 1
    THEN IF bytes[1] >= 128 THEN bytes[1] - 256 ELSE bytes[1]
    ELSE bytes[1] + 256 * BytesToInt(Tail(bytes))

\* memcpy of a float: three bytes of significand, one of exponent.
FloatToBytes(f) == IntToBytes(f.m, 3) \o IntToBytes(f.e, 1)

BytesToFloat(bytes) ==
    [m |-> BytesToUnsigned(SubSeq(bytes, 1, 3)),
     e |-> BytesToInt(SubSeq(bytes, 4, 4))]

TimePoint(ms, us) == [ms |-> ms, us |-> us]

\* std::nullopt of an optional time point
NoTimePoint == [has_value |-> FALSE, value |-> TimePoint(0, 0)]

\* SleepDetectionResult{} as serializeToBinary receives it
DefaultSession ==
    [EmptyResult EXCEPT !.bedtime = NoTimePoint, !.wake_time = NoTimePoint]

\* SleepDetectionResult{} as deserializeFromBinary returns it
DefaultRestored ==
    [DefaultSession EXCEPT !.duration = [m |-> 0, e |-> 0],
                           !.quality_score = [m |-> 0, e |-> 0],
                           !.pattern_match_score = [m |-> 0, e |-> 0]]

\* duration_cast<milliseconds>(time_since_epoch()).count()
ToMilliseconds(time_point) == time_point.ms

\* lines 139-194; duration is minutes, quality and pattern score are
\* thousandths
serializeToBinary(session) ==
    IF ~ResultIsValid(session) THEN << >>
    ELSE IntToBytes(ToMilliseconds(session.bedtime.value), 8)
         \o IntToBytes(IF session.wake_time.has_value
                       THEN ToMilliseconds(session.wake_time.value) ELSE 0, 8)
         \o FloatToBytes(ToFloat(session.duration * 60, 1))
         \o IntToBytes(session.confidence, 1)
         \o FloatToBytes(ToFloat(session.quality_score, 1000))
         \o IntToBytes(IF session.is_manually_confirmed THEN 1 ELSE 0, 1)
         \o FloatToBytes(ToFloat(session.pattern_match_score, 1000))
         \o IntToBytes(Len(session.interruptions), 2)

\* lines 196-252; the duration, the quality and the pattern score of the
\* session returned are floats: seconds, and units
deserializeFromBinary(buffer, size) ==
    IF size < 32 THEN DefaultRestored
    ELSE LET bedtime_ms == BytesToInt(SubSeq(buffer, 1, 8))
             wake_ms == BytesToInt(SubSeq(buffer, 9, 16))
         IN  [DefaultRestored EXCEPT
                 !.bedtime = Some(TimePoint(bedtime_ms, 0)),
                 !.wake_time = IF wake_ms > 0 THEN Some(TimePoint(wake_ms, 0))
                               ELSE NoTimePoint,
                 !.duration = BytesToFloat(SubSeq(buffer, 17, 20)),
                 !.confidence = buffer[21],
                 !.quality_score = BytesToFloat(SubSeq(buffer, 22, 25)),
                 !.is_manually_confirmed = (buffer[26] % 2 = 1),
                 !.pattern_match_score = BytesToFloat(SubSeq(buffer, 27, 30))]

\* Sessions handed to serializeToBinary: bedtimes before and after the
\* epoch, with and without a fraction of a millisecond; wake times absent,
\* at the epoch and after it; durations around one hour and 24 hours.
SessionInputs ==
    { [DefaultSession EXCEPT
          !.bedtime = Some(bedtime), !.wake_time = wake_time,
          !.duration = duration, !.confidence = confidence,
          !.quality_score = quality_score,
          !.is_manually_confirmed = is_manually_confirmed] :
        bedtime \in {TimePoint(0 - 1800000, 0), TimePoint(3600000, 0),
                     TimePoint(3600000, 500)},
        wake_time \in {NoTimePoint, Some(TimePoint(0, 0)),
                       Some(TimePoint(7200000, 0)), Some(TimePoint(7200000, 250))},
        duration \in {0, 60, 61, 480, 24 * 60, 24 * 60 + 1},
        confidence \in 0..4,
        quality_score \in {0, 500, 970, 1000},
        is_manually_confirmed \in BOOLEAN }

InitSerialize ==
    /\ Constructed(DefaultPreferences)
    /\ ThreadsIdle
    /\ snapshot = << >>
    /\ analysis = NoAnalysis
    /\ \E session \in SessionInputs :
          helper = [op |-> "none", session |-> session, buffer |-> << >>,
                    size |-> 0, restored |-> DefaultRestored]
    /\ ValueInitializedMatcher

SerializeSession ==
    /\ helper.op = "none"
    /\ helper' = [helper EXCEPT
                    !.op = "serializeToBinary",
                    !.buffer = serializeToBinary(helper.session),
                    !.size = Len(serializeToBinary(helper.session))]
    /\ UNCHANGED <<detectorVars, threadVars, analysisVars, matcherVars>>

\* The bytes and the byte count that serializeToBinary produced are handed
\* to deserializeFromBinary.
DeserializeSession ==
    /\ helper.op = "serializeToBinary"
    /\ helper' = [helper EXCEPT
                    !.op = "deserializeFromBinary",
                    !.restored = deserializeFromBinary(helper.buffer,
                                                       helper.size)]
    /\ UNCHANGED <<detectorVars, threadVars, analysisVars, matcherVars>>

NextSerialize == SerializeSession \/ DeserializeSession

SpecSerialize == InitSerialize /\ [][NextSerialize]_vars

\* --------------------------------------------------------- PatternMatcher
\* The pattern matcher on its own: sessions are handed to updatePatterns.
\* Typical times are minutes since midnight, pattern_confidence_ is in
\* hundredths, average_sleep_duration_ in minutes and
\* schedule_regularity_score_ in twentieths.
\* tm_wday of a time point; minute 0 is the midnight that begins a Thursday.
DayOfWeek(time_point) == (4 + time_point \div MinutesPerDay) % 7

MEDIUM == 2

\* pattern_matcher.h declares the three arrays without an initializer and
\* the class has no constructor: value-initialization zeroes them,
\* default-initialization leaves them indeterminate.
IndeterminateMinutes == {0, 23 * 60}

IndeterminateWeights == {0, 95, 250}

\* new = old * (1 - alpha) + sample * alpha with alpha = 0.1, cut to int
Blend(current_minutes, new_minutes) == (9 * current_minutes + new_minutes) \div 10

RaisedWeight(weight) == Min(100, weight + 5)

RECURSIVE SumOver(_, _)
SumOver(values, n) == IF n < 0 THEN 0 ELSE values[n] + SumOver(values, n - 1)

\* max(0, 1 - std_dev / 180) of the seven typical bedtimes, rounded down to
\* a twentieth: k/20 <= 1 - std_dev/180 iff the sum of the squares of
\* 7 * minutes - total is at most 343 * 81 * (20 - k)^2.
calculateScheduleRegularity(bedtimes) ==
    LET total == SumOver(bedtimes, 6)
        squares == [d \in Weekdays |-> (7 * bedtimes[d] - total) * (7 * bedtimes[d] - total)]
        spread == SumOver(squares, 6)
    IN  MaxOf({0} \cup {k \in 0..20 : spread <= 343 * 81 * (20 - k) * (20 - k)})

\* Sessions handed to updatePatterns: bedtimes on a Thursday (23:00) and on
\* a Friday (23:30), eight hours of sleep, and sessions that are not valid.
PatternSessions ==
    {[EmptyResult EXCEPT !.bedtime = Some(23 * 60),
                         !.wake_time = Some(23 * 60 + 480),
                         !.duration = 480, !.confidence = confidence]
        : confidence \in {1, 2, 3}}
    \cup {[EmptyResult EXCEPT !.bedtime = Some(MinutesPerDay + 23 * 60 + 30),
                              !.wake_time = Some(2 * MinutesPerDay + 7 * 60 + 30),
                              !.duration = 480, !.confidence = MEDIUM],
          [EmptyResult EXCEPT !.bedtime = Some(23 * 60),
                              !.wake_time = Some(23 * 60 + 30),
                              !.duration = 30, !.confidence = MEDIUM],
          [EmptyResult EXCEPT !.bedtime = Some(23 * 60),
                              !.duration = 480, !.confidence = 4]}

InitPatterns ==
    /\ Constructed(DefaultPreferences)
    /\ ThreadsIdle
    /\ snapshot = << >>
    /\ analysis = NoAnalysis
    /\ helper = [op |-> "none", session |-> EmptyResult,
                 regularity_computed |-> FALSE]
    /\ \E minutes \in IndeterminateMinutes, weight \in IndeterminateWeights :
          /\ typical_bedtimes_ = [d \in Weekdays |-> minutes]
          /\ typical_wake_times_ = [d \in Weekdays |-> minutes]
          /\ pattern_confidence_ = [d \in Weekdays |-> weight]
    /\ average_sleep_duration_ = InitialAverageSleepDuration
    /\ schedule_regularity_score_ = 0

updatePatterns(session) ==
    /\ helper' = [op |-> "updatePatterns", session |-> session,
                  regularity_computed |->
                      \/ helper.regularity_computed
                      \/ ResultIsValid(session) /\ total_sleep_sessions_ > 7]
    /\ IF ~ResultIsValid(session)
       THEN UNCHANGED <<matcherVars, total_sleep_sessions_>>
       ELSE LET day_of_week == DayOfWeek(session.bedtime.value)
                bedtime_minutes == getMinutesSinceMidnight(session.bedtime.value)
                wake_minutes == getMinutesSinceMidnight(session.wake_time.value)
                bedtimes ==
                    [typical_bedtimes_ EXCEPT ![day_of_week] =
                        IF total_sleep_sessions_ = 0 THEN bedtime_minutes
                        ELSE Blend(@, bedtime_minutes)]
            IN  /\ typical_bedtimes_' = bedtimes
                /\ typical_wake_times_' =
                      [typical_wake_times_ EXCEPT ![day_of_week] =
                          IF total_sleep_sessions_ = 0 THEN wake_minutes
                          ELSE Blend(@, wake_minutes)]
                /\ average_sleep_duration_' =
                      IF total_sleep_sessions_ = 0 THEN session.duration
                      ELSE Blend(average_sleep_duration_, session.duration)
                /\ pattern_confidence_' =
                      IF session.confidence >= MEDIUM
                      THEN [pattern_confidence_ EXCEPT ![day_of_week] = RaisedWeight(@)]
                      ELSE pattern_confidence_
                /\ schedule_regularity_score_' =
                      IF total_sleep_sessions_ > 7
                      THEN calculateScheduleRegularity(bedtimes)
                      ELSE schedule_regularity_score_
                /\ total_sleep_sessions_' = total_sleep_sessions_ + 1
    /\ UNCHANGED <<recent_events_, event_write_index_, event_buffer_full_,
                   preferences_, cached_result_, last_cache_update_, insert_rank,
                   lastCall, threadVars, analysisVars>>

NextPatterns ==
    \E session \in PatternSessions :
        /\ total_sleep_sessions_ < MaxSessions
        /\ updatePatterns(session)

SpecPatterns == InitPatterns /\ [][NextPatterns]_vars

\* ------------------------------------------------------ SleepInterruption
\* The constructor applied to two durations, in milliseconds.
InterruptionDurations ==
    {0, 10000, 29999, 30000, 59999, 60000, 300000, 599999, 600000, 900000}

InitInterruptions ==
    /\ Constructed(DefaultPreferences)
    /\ ThreadsIdle
    /\ snapshot = << >>
    /\ analysis = NoAnalysis
    /\ ValueInitializedMatcher
    /\ \E d1 \in InterruptionDurations, d2 \in InterruptionDurations :
          helper = [op |-> "none", d1 |-> d1, d2 |-> d2,
                    first |-> SleepInterruption(0, 0, "UNKNOWN", "UNKNOWN"),
                    second |-> SleepInterruption(0, 0, "UNKNOWN", "UNKNOWN")]

ConstructInterruptions ==
    /\ helper.op = "none"
    /\ helper' = [helper EXCEPT
                    !.op = "SleepInterruption",
                    !.first = SleepInterruption(0, helper.d1, "UNKNOWN", "UNKNOWN"),
                    !.second = SleepInterruption(0, helper.d2, "UNKNOWN", "UNKNOWN")]
    /\ UNCHANGED <<detectorVars, threadVars, analysisVars, matcherVars>>

NextInterruptions == ConstructInterruptions

SpecInterruptions == InitInterruptions /\ [][NextInterruptions]_vars

\* ------------------------------------------------------------------ claims
IsDetectCall(call) == call.op = "detectSleepPeriod"

IsAddCall(call) == call.op \in {"addInteractionEvent", "confirmManualSleep"}

IsUpdateCall(call) == call.op = "updateUserPreferences"

\* The validity ranges as the specification states them.
StatedPrefsValid(p) ==
    /\ 60 <= p.target_sleep_hours /\ p.target_sleep_hours <= 12 * 60
    /\ 10 <= p.confidence_threshold /\ p.confidence_threshold <= 100
    /\ p.minimum_interaction_gap >= 60 * 60

\* Two detectSleepPeriod calls in a row, the second at most 5 minutes (not
\* included) after the first.
DetectTwiceWithinWindow ==
    /\ IsDetectCall(lastCall)
    /\ IsDetectCall(lastCall')
    /\ lastCall.time <= lastCall'.time
    /\ lastCall'.time - lastCall.time < 5

OnlyBedtime(r) == r = [EmptyResult EXCEPT !.bedtime = r.bedtime]

\* C1 as stated: two detectSleepPeriod calls less than 5 minutes apart with
\* no mutating call between them return identical results, whatever the
\* first result is.
C1_SecondResultIdentical ==
    [][DetectTwiceWithinWindow => lastCall'.result = lastCall.result]_vars

\* C1 amended: the second result is identical to the first whenever the
\* first result has a bedtime (valid, not valid, or without wake time); a first
\* result without bedtime is followed by an identical result or by one that
\* carries only a bedtime.
C1_IdenticalOnceBedtimeKnown ==
    [][DetectTwiceWithinWindow =>
         IF lastCall.result.bedtime.has_value
         THEN lastCall'.result = lastCall.result
         ELSE \/ lastCall'.result = lastCall.result
              \/ /\ lastCall'.result.bedtime.has_value
                 /\ OnlyBedtime(lastCall'.result)]_vars

\* A detection answered from the cache strictly later than the detection
\* that filled it.
C1_Witness ==
    /\ IsDetectCall(lastCall)
    /\ lastCall.from_cache
    /\ lastCall.time > last_cache_update_
    /\ lastCall.result.interruptions # << >>

\* C2: after addInteractionEvent (also through confirmManualSleep) the cache
\* is empty and the buffer holds the new event; a detectSleepPeriod call made
\* next computes its result from the buffer, and a result it caches carries
\* that call's current_time.
C2_AddInvalidatesCache ==
    [][/\ IsAddCall(lastCall') =>
            /\ ~cached_result_'.has_value
            /\ \E i \in 1..Len(recent_events_') : recent_events_'[i] = lastCall'.event
       /\ (IsAddCall(lastCall) /\ IsDetectCall(lastCall')) =>
            /\ ~lastCall'.from_cache
            /\ lastCall'.result =
                  ComputeResult(SortEvents(recent_events_), lastCall'.time, preferences_)
            /\ \E i \in 1..Len(recent_events_) : recent_events_[i] = lastCall.event
            /\ cached_result_'.has_value =>
                  /\ last_cache_update_' = lastCall'.time
                  /\ cached_result_'.value = lastCall'.result]_vars

\* An add that found a cached result and removed it.
C2_Witness ==
    /\ IsAddCall(lastCall)
    /\ lastCall.had_cache
    /\ ~cached_result_.has_value

\* C3 as stated: an add on a full buffer evicts the event inserted earliest
\* among the retained ones (age rank 1).
C3_EvictsOldest == lastCall.evicted \in {0, 1}

\* C4: the buffer never holds more than MAX_EVENTS_CACHE events and the write
\* index is always below MAX_EVENTS_CACHE.
C4_BufferBounded ==
    /\ Len(recent_events_) <= MAX_EVENTS_CACHE
    /\ event_write_index_ \in 0..(MAX_EVENTS_CACHE - 1)

\* The write index has wrapped around to slot 0.
C4_Witness ==
    /\ event_buffer_full_
    /\ lastCall.evicted # 0
    /\ event_write_index_ = 0

MeaningfulTimes == {recent_events_[i].timestamp : i \in
                       {j \in 1..Len(recent_events_) :
                            isMeaningfulUse(recent_events_[j])}}

\* The precondition of C5 at current_time: the latest meaningful-use event is
\* at least minimum_interaction_gap old and no closed gap qualifies as sleep.
StillAsleepAt(current_time) ==
    /\ MeaningfulTimes # {}
    /\ (current_time - MaxOf(MeaningfulTimes)) * 60
          >= preferences_.minimum_interaction_gap
    /\ LET gaps == detectInteractionGaps(getSortedEvents,
                                         preferences_.minimum_interaction_gap)
       IN  \A i \in 1..Len(gaps) :
              ~GapIsLikelySleep(gaps[i], preferences_.minimum_interaction_gap)

OpenSleepSince(r, t) ==
    /\ r.bedtime = Some(t)
    /\ ~r.wake_time.has_value
    /\ ~(r.bedtime.has_value /\ r.wake_time.has_value
         /\ r.duration >= 60 /\ r.duration <= 24 * 60)

C5_Queries ==
    /\ (lastCall.op = "isCurrentlyAsleep" /\ StillAsleepAt(lastCall.time))
          => lastCall.flag
    /\ (lastCall.op = "getEstimatedSleepStart" /\ StillAsleepAt(lastCall.time))
          => lastCall.opt = Some(MaxOf(MeaningfulTimes))

\* C5 as stated: under the precondition the three queries agree on an open
\* sleep period that began at the latest meaningful-use event, also when
\* that event is the only one retained.
C5_OpenSleepReported ==
    /\ C5_Queries
    /\ (IsDetectCall(lastCall) /\ StillAsleepAt(lastCall.time))
          => OpenSleepSince(lastCall.result, MaxOf(MeaningfulTimes))

\* C5 amended: as stated for isCurrentlyAsleep and getEstimatedSleepStart;
\* for detectSleepPeriod only when at least two events are retained.
C5_OpenSleepReportedFromTwoEvents ==
    /\ C5_Queries
    /\ (IsDetectCall(lastCall) /\ StillAsleepAt(lastCall.time)
        /\ Len(recent_events_) >= 2)
          => OpenSleepSince(lastCall.result, MaxOf(MeaningfulTimes))

C5_Witness ==
    /\ IsDetectCall(lastCall)
    /\ StillAsleepAt(lastCall.time)
    /\ Len(recent_events_) >= 2
    /\ lastCall.result.bedtime.has_value

\* C6: with 0 or 1 retained events detectSleepPeriod returns the empty
\* result and the cache is empty.
C6_TooFewEventsNoResult ==
    Len(recent_events_) < 2 =>
        /\ ~cached_result_.has_value
        /\ IsDetectCall(lastCall) =>
              /\ ~lastCall.result.bedtime.has_value
              /\ ~lastCall.result.wake_time.has_value
              /\ lastCall.result = EmptyResult

\* A detection on a single meaningful-use event that is old enough to count
\* as the start of an open sleep period.
C6_Witness ==
    /\ IsDetectCall(lastCall)
    /\ Len(recent_events_) = 1
    /\ StillAsleepAt(lastCall.time)

\* C7 as stated: a detection that computes a valid result stores it in the
\* cache with the call's current_time and hands it to updatePatterns of the
\* Pattern Matcher, which counts one more session.
C7_ValidResultFeedsPatternMatcher ==
    [][(IsDetectCall(lastCall') /\ ~lastCall'.from_cache
        /\ lastCall'.result.bedtime.has_value
        /\ lastCall'.result.wake_time.has_value
        /\ lastCall'.result.duration >= 60
        /\ lastCall'.result.duration <= 24 * 60) =>
           /\ cached_result_' = Some(lastCall'.result)
           /\ last_cache_update_' = lastCall'.time
           /\ total_sleep_sessions_' = total_sleep_sessions_ + 1]_vars

\* C8: updateUserPreferences with preferences outside the stated ranges
\* leaves the preferences, the buffer and the cache as they were.
C8_InvalidUpdateChangesNothing ==
    [][(IsUpdateCall(lastCall') /\ ~StatedPrefsValid(lastCall'.prefs)) =>
           UNCHANGED <<preferences_, recent_events_, event_write_index_,
                       event_buffer_full_, cached_result_, last_cache_update_,
                       total_sleep_sessions_>>]_vars

\* A rejected update that found a cached result and left it in place.
C8_Witness ==
    /\ IsUpdateCall(lastCall)
    /\ ~StatedPrefsValid(lastCall.prefs)
    /\ lastCall.had_cache
    /\ cached_result_.has_value
    /\ preferences_ # DefaultPreferences

\* C9: the active preferences are within the stated ranges in every state.
C9_ActivePreferencesValid == StatedPrefsValid(preferences_)

\* A detector constructed with invalid preferences runs with the defaults.
C9_Witness ==
    /\ lastCall.op = "SleepDetector"
    /\ ~StatedPrefsValid(lastCall.prefs)
    /\ preferences_ = DefaultPreferences

\* C10: a valid updateUserPreferences installs the new preferences and
\* clears the cache; a detectSleepPeriod call made next computes its result
\* under the new preferences.
C10_ValidUpdateInvalidatesCache ==
    [][/\ (IsUpdateCall(lastCall') /\ StatedPrefsValid(lastCall'.prefs)) =>
            /\ ~cached_result_'.has_value
            /\ preferences_' = lastCall'.prefs
       /\ (IsUpdateCall(lastCall) /\ StatedPrefsValid(lastCall.prefs)
           /\ IsDetectCall(lastCall')) =>
            /\ ~lastCall'.from_cache
            /\ lastCall'.result =
                  ComputeResult(SortEvents(recent_events_), lastCall'.time,
                                lastCall.prefs)]_vars

\* A valid update that changed the preferences and removed a cached result.
C10_Witness ==
    /\ IsUpdateCall(lastCall)
    /\ StatedPrefsValid(lastCall.prefs)
    /\ lastCall.had_cache
    /\ ~cached_result_.has_value
    /\ preferences_ = DefaultPreferences

\* The validity of a result as the specification states it.
StatedResultValid(r) ==
    /\ r.bedtime.has_value
    /\ r.wake_time.has_value
    /\ 60 <= r.duration
    /\ r.duration <= 24 * 60

IsAnalysedDetection == analysis.op = "detectSleepPeriod"

MinOf(S) == CHOOSE x \in S : \A y \in S : x <= y

\* Time stamps of the meaningful-use events of the analysed snapshot.
SnapshotMeaningfulTimes ==
    {snapshot[i].timestamp : i \in
        {j \in 1..Len(snapshot) : snapshot[j].type = "MEANINGFUL_USE"}}

FirstMeaningful == MinOf(SnapshotMeaningfulTimes)

LastMeaningful == MaxOf(SnapshotMeaningfulTimes)

\* Number of time checks strictly between the two meaningful-use events.
BriefBetween ==
    Cardinality({i \in 1..Len(snapshot) :
                    /\ snapshot[i].timestamp > FirstMeaningful
                    /\ snapshot[i].timestamp < LastMeaningful
                    /\ isTimeCheck(snapshot[i])})

\* C15: a snapshot of exactly two meaningful-use events whose distance is at
\* least minimum_interaction_gap and at most 24 hours yields bedtime = first,
\* wake_time = second, duration = their distance, no interruptions, quality
\* 1.0 and a valid result.
C15_TwoEventsOneNight ==
    (/\ IsAnalysedDetection
     /\ Len(snapshot) = 2
     /\ (LastMeaningful - FirstMeaningful) * 60
            >= preferences_.minimum_interaction_gap
     /\ LastMeaningful - FirstMeaningful <= 24 * 60) =>
        /\ analysis.result.bedtime = Some(FirstMeaningful)
        /\ analysis.result.wake_time = Some(LastMeaningful)
        /\ analysis.result.duration = LastMeaningful - FirstMeaningful
        /\ analysis.result.interruptions = << >>
        /\ analysis.result.quality_score = 1000
        /\ StatedResultValid(analysis.result)

\* Two events exactly 24 hours apart were analysed.
C15_Witness ==
    /\ IsAnalysedDetection
    /\ Len(snapshot) = 2
    /\ LastMeaningful - FirstMeaningful = 24 * 60
    /\ analysis.result.wake_time = Some(LastMeaningful)

\* A SLEEP_CONFIRMATION event within 30 minutes of time t, bounds included.
ConfirmedNear(t) ==
    \E i \in 1..Len(snapshot) :
        /\ snapshot[i].type = "SLEEP_CONFIRMATION"
        /\ snapshot[i].timestamp - t <= 30
        /\ t - snapshot[i].timestamp <= 30

\* C16: a computed result with bedtime and wake time is manually confirmed
\* with confidence VERY_HIGH exactly when the snapshot holds a
\* SLEEP_CONFIRMATION event within 30 minutes (inclusive) of the bedtime;
\* otherwise it is not manually confirmed.
C16_ConfirmationNearBedtime ==
    (/\ IsAnalysedDetection
     /\ analysis.result.bedtime.has_value
     /\ analysis.result.wake_time.has_value) =>
        IF ConfirmedNear(analysis.result.bedtime.value)
        THEN /\ analysis.result.is_manually_confirmed
             /\ analysis.result.confidence = 4
        ELSE ~analysis.result.is_manually_confirmed

\* A confirmation exactly 30 minutes before the detected bedtime was honoured.
C16_Witness ==
    /\ IsAnalysedDetection
    /\ analysis.result.wake_time.has_value
    /\ analysis.result.is_manually_confirmed
    /\ \E i \in 1..Len(snapshot) :
          /\ snapshot[i].type = "SLEEP_CONFIRMATION"
          /\ snapshot[i].timestamp = analysis.result.bedtime.value - 30

\* C17: a cached result is always valid, and a detection that computes a
\* result that is not valid returns it and leaves the cache as it was.
C17_OnlyValidResultsCached ==
    [][/\ cached_result_'.has_value => StatedResultValid(cached_result_'.value)
       /\ (IsDetectCall(lastCall') /\ ~lastCall'.from_cache
           /\ ~StatedResultValid(lastCall'.result)) =>
              UNCHANGED <<cached_result_, last_cache_update_>>]_vars

\* A detection returned a period longer than 24 hours and cached nothing.
C17_Witness ==
    /\ IsDetectCall(lastCall)
    /\ lastCall.result.bedtime.has_value
    /\ lastCall.result.wake_time.has_value
    /\ lastCall.result.duration > 24 * 60
    /\ ~cached_result_.has_value

C19_GapQualifiesInclusive ==
    LET long == (LastMeaningful - FirstMeaningful) * 60
                    >= preferences_.minimum_interaction_gap
    IN  /\ IsAnalysedDetection =>
              (analysis.result.bedtime = Some(FirstMeaningful)
                  <=> (long /\ BriefBetween < 5))
        /\ analysis.op = "detectInteractionGaps" =>
              ((\E i \in 1..Len(analysis.gaps) :
                   /\ analysis.gaps[i].start_time = FirstMeaningful
                   /\ analysis.gaps[i].end_time = LastMeaningful
                   /\ analysis.gaps[i].brief_interaction_count = BriefBetween)
                 <=> long)

\* A gap of exactly minimum_interaction_gap with exactly 4 time checks was
\* taken as the sleep period.
C19_Witness ==
    /\ IsAnalysedDetection
    /\ (LastMeaningful - FirstMeaningful) * 60 = preferences_.minimum_interaction_gap
    /\ BriefBetween = 4
    /\ analysis.result.bedtime = Some(FirstMeaningful)

\* The sleep heuristic as the specification states it: a most recent
\* meaningful-use event exists and is at least minimum_interaction_gap old.
StatedAsleep(current_time) ==
    /\ MeaningfulTimes # {}
    /\ (current_time - MaxOf(MeaningfulTimes)) * 60
          >= preferences_.minimum_interaction_gap

\* C20: getEstimatedSleepStart returns a value exactly when isCurrentlyAsleep
\* is true, which is exactly when the most recent meaningful-use event is at
\* least minimum_interaction_gap old.
C20_SleepStartIffAsleep ==
    /\ lastCall.op = "getEstimatedSleepStart" =>
          (lastCall.opt.has_value <=> StatedAsleep(lastCall.time))
    /\ lastCall.op = "isCurrentlyAsleep" =>
          (lastCall.flag <=> StatedAsleep(lastCall.time))

\* A sleep start was returned for an event exactly minimum_interaction_gap old.
C20_Witness ==
    /\ lastCall.op = "getEstimatedSleepStart"
    /\ lastCall.opt.has_value
    /\ (lastCall.time - lastCall.opt.value) * 60 = preferences_.minimum_interaction_gap
    /\ Len(recent_events_) >= 2

\* ------------------------------------------------ claims on concurrency
AllReturned == \A t \in Threads : pc[t] = "idle"

\* C11 as stated: once the calls in progress have returned, a cached result
\* was computed from a snapshot of the buffer as it is now, so it ignores no
\* event whose addInteractionEvent has completed.
C11_CacheSeesCompletedAdds ==
    (AllReturned /\ cached_result_.has_value) =>
        cache_source = SortEvents(recent_events_)

\* The next statement of thread t reads cached_result_ or last_cache_update_.
ReadsCacheNext(t) == pc[t] \in {"canUseCachedResult", "return_cached"}

\* The next statement of thread t writes cached_result_ or
\* last_cache_update_.
WritesCacheNext(t) ==
    \/ pc[t] \in {"cache_store", "cache_stamp", "add_reset", "clear_reset"}
    \/ pc[t] = "preferences_copy" /\ preferences_ = frame[t].new_preferences

\* C12 as stated: a thread that reads or writes the cache pair holds
\* events_mutex_ while it does, no thread reads the pair while another is
\* about to reset or store it, and in particular none reads it between the
\* assignment of the result and the assignment of its time stamp.
C12_CacheAccessesExcluded ==
    \A t \in Threads :
        /\ (ReadsCacheNext(t) \/ WritesCacheNext(t)) =>
              (events_mutex_ = t \/ (events_mutex_ = 0 /\ pc[t] = "cache_store"))
        /\ ReadsCacheNext(t) =>
              \A u \in Threads \ {t} : ~WritesCacheNext(u)

\* C13 as stated: the preferences a detection works with, the gap it read
\* in findSleepStartTime together with what it reads when scoring, are one
\* of the complete objects that were installed, and the object is complete
\* whenever a detection is about to read it.
C13_PreferencesReadWhole ==
    \A t \in Threads :
        /\ pc[t] = "calculateConfidenceScore" =>
              PreferencesSeen(t) \in ThreadPreferenceInputs
        /\ pc[t] \in {"findSleepStartTime", "calculateConfidenceScore"} =>
              preferences_ \in ThreadPreferenceInputs

Occurrences(seq, e) == Cardinality({i \in 1..Len(seq) : seq[i] = e})

IsPermutation(a, b) ==
    /\ Len(a) = Len(b)
    /\ \A i \in 1..Len(a) : Occurrences(a, a[i]) = Occurrences(b, a[i])

NonDecreasing(seq) ==
    \A i \in 1..(Len(seq) - 1) : seq[i].timestamp <= seq[i + 1].timestamp

\* C14: a snapshot taken by getSortedEvents is ordered by non-decreasing
\* time stamp and is a permutation of the buffer at that moment, no
\* addInteractionEvent or clearOldData call is under way at that moment, and
\* taking it changes neither the buffer, the write index nor the cache.
C14_SnapshotIsConsistentCopy ==
    [][\A t \in Threads :
          (pc[t] = "getSortedEvents" /\ pc'[t] = "findSleepStartTime") =>
              /\ NonDecreasing(frame'[t].events)
              /\ IsPermutation(frame'[t].events, recent_events_)
              /\ \A u \in Threads :
                    frame[u].op \notin {"addInteractionEvent", "clearOldData"}
              /\ UNCHANGED <<recent_events_, event_write_index_,
                             event_buffer_full_, cached_result_,
                             last_cache_update_>>]_vars

\* A thread holds a sorted snapshot of a buffer that is not in time order
\* while the other thread is inside a call.
C14_Witness ==
    \E t \in Threads :
        /\ pc[t] = "findSleepStartTime"
        /\ frame[t].events # recent_events_
        /\ IsPermutation(frame[t].events, recent_events_)
        /\ \E u \in Threads \ {t} : pc[u] # "idle"

\* ------------------------------------------------ claims on the estimate
\* C21 as stated: a value returned by getEstimatedSleepStart is the time
\* stamp of the most recent meaningful-use event, where the sleep period
\* that is still open began, also when the history holds an older closed
\* gap that qualifies as sleep.
C21_EstimateIsStartOfOpenPeriod ==
    (analysis.op = "getEstimatedSleepStart" /\ analysis.start.has_value) =>
        analysis.start.value = LastMeaningful

\* ------------------------------------------- claims on classification
HasClassified == helper.op \in {"classifyInteraction", "classifyInteraction again"}

\* C22: either definition of classifyInteraction returns the type of an
\* event whose type is not UNKNOWN, whatever its duration and the history,
\* and classifying the event again under the type returned gives that type.
C22_ClassificationStickyAndIdempotent ==
    /\ (HasClassified /\ helper.event.type # "UNKNOWN") =>
          helper.type = helper.event.type
    /\ helper.op = "classifyInteraction again" => helper.again = helper.type

\* An unclassified event of 15 s that continues a meaningful use has been
\* classified twice.
C22_Witness ==
    /\ helper.op = "classifyInteraction again"
    /\ helper.event.type = "UNKNOWN"
    /\ helper.event.duration = 15000
    /\ helper.type = "MEANINGFUL_USE"
    /\ helper.again = "MEANINGFUL_USE"

\* The preceding event is a meaningful use less than 2 minutes before.
ContinuesMeaningfulUse(event, context) ==
    /\ context # << >>
    /\ context[Len(context)].type = "MEANINGFUL_USE"
    /\ event.timestamp - context[Len(context)].timestamp < 2

\* The classification of an UNKNOWN event as the thresholds are stated.
StatedClassification(event, context) ==
    IF event.duration < 15000 THEN "TIME_CHECK"
    ELSE IF event.duration < 30000
    THEN IF ContinuesMeaningfulUse(event, context)
         THEN "MEANINGFUL_USE" ELSE "TIME_CHECK"
    ELSE IF event.duration < 300000 THEN "MEANINGFUL_USE"
    ELSE "EXTENDED_USE"

\* C23 as stated: for an event of type UNKNOWN both definitions return
\* TIME_CHECK below 15 s, below 30 s MEANINGFUL_USE exactly when the event
\* continues a meaningful use and TIME_CHECK otherwise, MEANINGFUL_USE below
\* 5 minutes and EXTENDED_USE from 5 minutes on.
C23_ThresholdsInBothDefinitions ==
    (HasClassified /\ helper.event.type = "UNKNOWN") =>
        helper.type = StatedClassification(helper.event, helper.context)

\* ------------------------------------------------- claims on the purge
\* C24: clearOldData(cutoff) removes exactly the retained events with a
\* time stamp before the cutoff, an event at the cutoff is kept, every other
\* event is preserved as often as it was retained, the cached result is
\* cleared and the preferences are unchanged.
C24_PurgeRemovesOlderOnly ==
    [][lastCall'.op = "clearOldData" =>
          /\ \A i \in 1..Len(recent_events_) :
                Occurrences(recent_events_', recent_events_[i]) =
                    IF recent_events_[i].timestamp < lastCall'.time THEN 0
                    ELSE Occurrences(recent_events_, recent_events_[i])
          /\ \A j \in 1..Len(recent_events_') :
                Occurrences(recent_events_, recent_events_'[j]) > 0
          /\ ~cached_result_'.has_value
          /\ preferences_' = preferences_]_vars

\* A purge found a cached result, removed what was older than the cutoff and
\* kept an event stamped with the cutoff itself.
C24_Witness ==
    /\ lastCall.op = "clearOldData"
    /\ lastCall.had_cache
    /\ ~cached_result_.has_value
    /\ Len(recent_events_) = 2
    /\ \E i \in 1..Len(recent_events_) :
          recent_events_[i].timestamp = lastCall.time
    /\ \A i \in 1..Len(recent_events_) :
          recent_events_[i].timestamp >= lastCall.time

\* ------------------------------------- claims on the clock and ingestion
\* The buffer that clearOldData leaves for a cutoff.
BufferWithoutOlder(events, cutoff_time) ==
    SelectSeq(events, LAMBDA e : ~(e.timestamp < cutoff_time))

\* C25 as stated: the outcome of optimizeMemory and of detectSleepPattern is
\* determined by the detector state and the arguments, so it is the outcome
\* for every reading of the wall clock.
C25_OutcomeIndependentOfWallClock ==
    [][/\ lastCall'.op = "optimizeMemory" =>
             \A now \in WallClockTimes :
                recent_events_' =
                    BufferWithoutOlder(recent_events_, now - MinutesPerWeek)
       /\ (helper'.op = "detectSleepPattern" /\ helper' # helper) =>
             \A now \in WallClockTimes :
                helper'.result =
                    detectSleepPattern(helper'.events, helper'.preferences, now)
      ]_vars

\* C26 as stated: every retained event has a duration that is not negative.
C26_NoNegativeDurationStored ==
    \A i \in 1..Len(recent_events_) : recent_events_[i].duration >= 0

\* ------------------------------------------- claims on serialization
\* The float f is exactly num/den.
FloatEquals(f, num, den) ==
    IF f.e >= 0 THEN f.m * Pow2(f.e) * den = num
    ELSE f.m * den = num * Pow2(0 - f.e)

Distance(a, b) == IF a >= b THEN a - b ELSE b - a

\* The float f is num/den within half a unit of its last place.
FloatNear(f, num, den) ==
    IF f.e >= 0
    THEN Distance(f.m * Pow2(f.e) * den, num) * Pow2(FloatMantissaBits) <= num
    ELSE Distance(f.m * den, num * Pow2(0 - f.e)) * Pow2(FloatMantissaBits)
            <= num * Pow2(0 - f.e)

RoundTripDone ==
    helper.op = "deserializeFromBinary" /\ ResultIsValid(helper.session)

AcceptedWithConfidence(session) ==
    ResultIsValid(session) /\ session.confidence >= MEDIUM

\* C28: after any number of updatePatterns calls every per-day weight is at
\* most 1.0 and none has decreased; a call with a valid session of
\* confidence MEDIUM or above raises the weight of the bedtime's weekday by
\* 0.05, capped at 1.0, and no other weight; any other call leaves all
\* seven weights as they were.
C28_WeightsCappedAndMonotone ==
    [][helper'.op = "updatePatterns" =>
          /\ \A d \in Weekdays :
                /\ pattern_confidence_'[d] <= 100
                /\ pattern_confidence_'[d] >= pattern_confidence_[d]
          /\ pattern_confidence_' =
                IF AcceptedWithConfidence(helper'.session)
                THEN [pattern_confidence_ EXCEPT
                         ![DayOfWeek(helper'.session.bedtime.value)] =
                             Min(100, @ + 5)]
                ELSE pattern_confidence_]_vars

\* The level the stated formula gives for a result: min(4, floor(5 * S)),
\* S computed from the fields of that result.
StatedConfidence(result, prefs) ==
    LET S == Min(1000000,
                 (DurationScore(result.duration, prefs.target_sleep_hours) \div 5)
                 + ((result.pattern_match_score * 15) \div 100)
                 + (result.quality_score * 100)
                 + (IF isNighttime(result.bedtime.value) THEN 50000 ELSE 0))
    IN  Min(4, (S * 5) \div 1000000)

\* C29: a valid result that detectSleepPeriod returns without manual
\* confirmation carries the confidence level min(4, floor(5 * S)), where S
\* is the weighted sum of the duration term, the pattern_match_score and
\* the quality_score of that same result and the night-time bonus.
C29_ConfidenceFromReturnedScores ==
    (/\ IsDetectCall(lastCall)
     /\ ~lastCall.from_cache
     /\ ResultIsValid(lastCall.result)
     /\ ~lastCall.result.is_manually_confirmed) =>
        lastCall.result.confidence = StatedConfidence(lastCall.result, preferences_)

\* A gap of at least the minimum length with fewer than five time checks.
Qualifies(gap, prefs) ==
    /\ gap.duration * 60 >= prefs.minimum_interaction_gap
    /\ gap.brief_interaction_count < 5

EmittedGaps == detectInteractionGaps(snapshot, preferences_.minimum_interaction_gap)

QualifyingGaps == {i \in 1..Len(EmittedGaps) : Qualifies(EmittedGaps[i], preferences_)}

\* C30: when an emitted gap qualifies as sleep, detectSleepPeriod returns
\* the start of the most recent qualifying gap as bedtime and its end as
\* wake_time, and the duration is at least minimum_interaction_gap.
C30_MostRecentQualifyingGap ==
    (analysis.op = "detectSleepPeriod" /\ QualifyingGaps # {}) =>
        LET gap == EmittedGaps[MaxOf(QualifyingGaps)]
        IN  /\ analysis.result.bedtime = Some(gap.start_time)
            /\ analysis.result.wake_time = Some(gap.end_time)
            /\ analysis.result.duration * 60 >= preferences_.minimum_interaction_gap

\* The most recent emitted gap holds five time checks and was passed over
\* for the older gap, which qualifies.
C30_Witness ==
    /\ analysis.op = "detectSleepPeriod"
    /\ Len(EmittedGaps) = 2
    /\ EmittedGaps[2].brief_interaction_count = 5
    /\ QualifyingGaps = {1}
    /\ analysis.result.wake_time = Some(EmittedGaps[1].end_time)
    /\ analysis.result.wake_time.value < EmittedGaps[2].end_time

\* The gap lies between two consecutive meaningful-use events of the
\* snapshot and counts the time checks between them.
GapAsStated(gap, events, min_gap_duration) ==
    \E i \in 1..Len(events), j \in 1..Len(events) :
        /\ i < j
        /\ isMeaningfulUse(events[i])
        /\ isMeaningfulUse(events[j])
        /\ \A k \in (i + 1)..(j - 1) : ~isMeaningfulUse(events[k])
        /\ gap.start_time = events[i].timestamp
        /\ gap.end_time = events[j].timestamp
        /\ gap.end_time > gap.start_time
        /\ gap.duration * 60 >= min_gap_duration
        /\ gap.brief_interaction_count =
              Cardinality({k \in (i + 1)..(j - 1) : isTimeCheck(events[k])})

\* C31: every gap that detectInteractionGaps emits starts at a
\* meaningful-use event and ends at the next one, is at least
\* min_gap_duration long and counts the time checks between the two, also
\* when the first event of the sequence is not meaningful use.
C31_GapsBetweenMeaningfulEvents ==
    analysis.op = "detectInteractionGaps" =>
        \A n \in 1..Len(analysis.gaps) :
            GapAsStated(analysis.gaps[n], snapshot,
                        preferences_.minimum_interaction_gap)

\* C32: for an event of type UNKNOWN classified without a preceding event,
\* isTimeCheck holds exactly when classifyInteraction returns TIME_CHECK and
\* isMeaningfulUse exactly when it returns MEANINGFUL_USE or EXTENDED_USE.
C32_PredicatesAgreeWithClassifier ==
    (/\ HasClassified
     /\ helper.implementation = "sleep_detector.cpp"
     /\ helper.event.type = "UNKNOWN"
     /\ helper.context = << >>) =>
        /\ isTimeCheck(helper.event) <=> helper.type = "TIME_CHECK"
        /\ isMeaningfulUse(helper.event)
              <=> helper.type \in {"MEANINGFUL_USE", "EXTENDED_USE"}

\* C33: the impact score the SleepInterruption constructor assigns lies in
\* [0,1], does not decrease when the duration grows, and is 1.0 at a
\* duration of 10 minutes.
C33_ImpactMonotoneAndCapped ==
    helper.op = "SleepInterruption" =>
        /\ helper.first.impact_score \in 0..1000
        /\ helper.d1 <= helper.d2 =>
              helper.first.impact_score <= helper.second.impact_score
        /\ helper.d1 = 600000 => helper.first.impact_score = 1000

\* clamp to [0,1] of 1.0 - sum of 0.1 * impact_score - 0.05 * max(0, n - 3)
StatedQuality(interruptions) ==
    LET n == Len(interruptions)
        penalties == [i \in 1..n |-> interruptions[i].impact_score \div 10]
        total[i \in 0..n] == IF i = 0 THEN 0 ELSE total[i - 1] + penalties[i]
    IN  Max(0, Min(1000, 1000 - total[n] - 50 * Max(0, n - 3)))

\* Three time checks of 10 s, and nothing else, lie between two
\* meaningful-use events that are at least minimum_interaction_gap apart.
ThreeChecksInCleanGap ==
    /\ Len(snapshot) = 5
    /\ \A i \in 2..4 : /\ snapshot[i].type = "TIME_CHECK"
                        /\ snapshot[i].duration = 10000
    /\ (LastMeaningful - FirstMeaningful) * 60
           >= preferences_.minimum_interaction_gap

\* C34: for a sleep period of positive length calculateSleepQuality returns
\* 1.0 less 0.1 * impact_score per interruption less 0.05 per interruption
\* beyond the third, clamped to [0,1]; three time checks of 10 s inside an
\* otherwise clean gap leave bedtime and wake_time in place, are recorded
\* as three interruptions of impact 0.1 and give quality 0.97.
C34_QualityFormulaAndExample ==
    IsAnalysedDetection =>
        /\ (/\ analysis.result.wake_time.has_value
            /\ analysis.result.wake_time.value > analysis.result.bedtime.value) =>
               analysis.result.quality_score =
                   StatedQuality(analysis.result.interruptions)
        /\ ThreeChecksInCleanGap =>
               /\ analysis.result.bedtime = Some(FirstMeaningful)
               /\ analysis.result.wake_time = Some(LastMeaningful)
               /\ Len(analysis.result.interruptions) = 3
               /\ \A i \in 1..3 :
                     analysis.result.interruptions[i].impact_score = 100
               /\ analysis.result.quality_score = 970

\* The three time checks of the example were analysed.
C34_Witness ==
    /\ IsAnalysedDetection
    /\ ThreeChecksInCleanGap
    /\ Len(analysis.result.interruptions) = 3
    /\ analysis.result.quality_score = 970

\* C35: once updatePatterns has accepted 8 valid sessions, the one being
\* processed included, the schedule-regularity score has been recomputed
\* from the seven typical bedtimes at least once; with fewer than 8
\* sessions recorded it still has its initial value 0.0.
C35_RegularityRecomputedFromEighth ==
    helper.op = "updatePatterns" =>
        /\ total_sleep_sessions_ >= 8 => helper.regularity_computed
        /\ total_sleep_sessions_ < 8 => schedule_regularity_score_ = 0

\* Positions of the snapshot's events strictly between bedtime and wake time.
InsideSleep(result) ==
    {k \in 1..Len(snapshot) :
        /\ snapshot[k].timestamp > result.bedtime.value
        /\ snapshot[k].timestamp < result.wake_time.value}

WithoutConfirmations ==
    LET NotConfirmation(e) == e.type # "SLEEP_CONFIRMATION"
    IN  SelectSeq(snapshot, NotConfirmation)

\* C38: a SLEEP_CONFIRMATION event of duration 0 is never counted as a brief
\* interaction of a gap and never recorded as a sleep interruption: the
\* emitted gaps, the interruption list and the quality_score are those of
\* the same events without the confirmations.
C38_ConfirmationsNeitherBriefNorInterruption ==
    /\ analysis.op = "detectInteractionGaps" =>
          analysis.gaps = detectInteractionGaps(WithoutConfirmations,
                              preferences_.minimum_interaction_gap)
    /\ IsAnalysedDetection =>
          LET plain == ComputeResult(WithoutConfirmations, analysis.current_time,
                                     preferences_)
          IN  /\ \A i \in 1..Len(analysis.result.interruptions) :
                    analysis.result.interruptions[i].cause # "SLEEP_CONFIRMATION"
              /\ analysis.result.interruptions = plain.interruptions
              /\ analysis.result.quality_score = plain.quality_score
              /\ analysis.result.bedtime = plain.bedtime

\* C39: whatever its type, category and duration, no event satisfies both
\* isTimeCheck and isMeaningfulUse.
C39_TimeCheckExcludesMeaningfulUse ==
    helper.op = "predicates" => ~(helper.time_check /\ helper.meaningful_use)

\* Thread self holds both mutexes.
HoldsBoth(self) == events_mutex_ = self /\ metrics_mutex_ = self

\* Some thread is inside a call and every thread inside a call waits for
\* a mutex that is held.
Deadlocked ==
    /\ \E self \in Threads : pc[self] # "idle"
    /\ \A self \in Threads :
          pc[self] # "idle" =>
              pc[self] \in LockLabels /\ MutexAwaited(self) # 0

\* C40: no thread ever holds events_mutex_ and metrics_mutex_ together, no
\* interleaving of addInteractionEvent, detectSleepPeriod, clearOldData,
\* getStatistics, getPerformanceMetrics and optimizeMemory deadlocks, and
\* with fair lock acquisition every call eventually returns.
C40_MutexesNeverNestedCallsReturn ==
    /\ [](\A self \in Threads : ~HoldsBoth(self))
    /\ []~Deadlocked
    /\ \A self \in Threads : (pc[self] # "idle") ~> (pc[self] = "idle")

\* getStatistics waits for events_mutex_, which the other thread holds
\* inside optimizeMemory, while nobody holds metrics_mutex_.
C40_Witness ==
    /\ pc[1] = "statistics_events"
    /\ frame[2].op = "optimizeMemory"
    /\ events_mutex_ = 2
    /\ metrics_mutex_ = 0

====
